---- MODULE Spec2Model ----
(***************************************************************************)
(* Model of the workflow graph executor, class DAGRunner of                *)
(* src/workflows/dag-runner.ts, with the types of src/core/types.ts.       *)
(*                                                                         *)
(* run() is an async function: it executes synchronously from one await    *)
(* to the next.  Each action below is one such synchronous stretch: the    *)
(* call of run() up to its first await, the continuation after             *)
(* `await node.execute(...)` (line 60) and the continuation after          *)
(* `await context.onBreakpoint(...)` (line 71).  The environment (the node *)
(* steps, the breakpoint handler, the abort signal) acts in between.       *)
(***************************************************************************)
EXTENDS Integers, Sequences, FiniteSets, TLC

\* ---------------------------------------------------------------- bounds
MaxData == 1
MaxEdges == 1
MaxEdgeList == 2
MaxIter == 3
MaxRuns == 2
MaxWorkflows == 3

\* ------------------------------------------------------------- constants
\* the bound of another graph (scene-draft's) taken for the default
DEFAULT_MAX_ITERATIONS_sceneDraft == 20

\* const DEFAULT_MAX_ITERATIONS = 50
DEFAULT_MAX_ITERATIONS == 50

Null == "null"
Undefined == "undefined"

\* ids of the nodes in graph.nodes, and an id that names no node
NodeIds == {"A", "B"}
MissingId == "X"

\* WorkflowState: an open record; `data` stands for the pipeline-defined
\* fields, `breakpoint` for "__breakpoint is present and truthy"
WorkflowState == [data : 0..MaxData, breakpoint : BOOLEAN]

\* edge.condition: absent, or a predicate on the state (which may throw)
Conditions == {Undefined, "dataPositive", "throws"}

WorkflowEdge == [from : NodeIds, to : NodeIds \cup {MissingId}, condition : Conditions]

RECURSIVE SeqsUpTo(_, _)
SeqsUpTo(S, n) ==
    IF n = 0 THEN {<<>>}
    ELSE LET shorter == SeqsUpTo(S, n - 1)
         IN shorter \cup {Append(s, e) : s \in {t \in shorter : Len(t) = n - 1}, e \in S}

\* maxIterations is <<n>>, or <<>> when the graph omits it
WorkflowGraph ==
    [entryNode : {"A", MissingId},
     edges : SeqsUpTo(WorkflowEdge, MaxEdges),
     maxIterations : {<<n>> : n \in 1..MaxIter}]

\* graphs with a longer edge list, all of whose edges lead to existing nodes
BranchingGraph ==
    [entryNode : {"A"},
     edges : SeqsUpTo([from : NodeIds, to : NodeIds, condition : Conditions],
                      MaxEdgeList),
     maxIterations : {<<n>> : n \in 1..MaxIter}]

\* graphs whose edges leave the entry node for existing nodes and whose
\* conditions do not throw
SimpleGraph ==
    [entryNode : {"A"},
     edges : SeqsUpTo([from : {"A"}, to : NodeIds,
                       condition : {Undefined, "dataPositive"}], MaxEdges),
     maxIterations : {<<n>> : n \in 1..(MaxIter - 1)}]

\* graphs that omit maxIterations, as buildDialogueRefineGraph does: a
\* two-node cycle, two self-loops, and a loop left when data is 0
DefaultGraph ==
    [entryNode : {"A"},
     edges : {<<[from |-> "A", to |-> "B", condition |-> Undefined],
                [from |-> "B", to |-> "A", condition |-> Undefined]>>,
              <<[from |-> "A", to |-> "A", condition |-> Undefined],
                [from |-> "B", to |-> "B", condition |-> Undefined]>>,
              <<[from |-> "A", to |-> "A", condition |-> "dataPositive"]>>},
     maxIterations : {<<>>}]

\* ------------------------------------------------- the pipeline graphs
Edge(f, t, c) == [from |-> f, to |-> t, condition |-> c]

\* buildSceneDraftGraph(): scene-draft.ts lines 377-424
buildSceneDraftGraph ==
    [id |-> "outline-to-scene-draft",
     entryNode |-> "identify",
     maxIterations |-> <<20>>,
     nodes |-> {"identify", "constraints", "rag", "generate", "continuity", "deltas",
                "revise", "evaluate", "finalize"},
     edges |-> <<Edge("identify", "constraints", Undefined),
                 Edge("constraints", "rag", Undefined),
                 Edge("rag", "generate", Undefined),
                 Edge("generate", "continuity", Undefined),
                 Edge("continuity", "revise", "needsRevision"),
                 Edge("continuity", "deltas", Undefined),
                 Edge("revise", "continuity", Undefined),
                 Edge("deltas", "evaluate", Undefined),
                 Edge("evaluate", "finalize", Undefined)>>]

\* buildBrainstormGraph()
buildBrainstormGraph ==
    [id |-> "brainstorm-beats",
     entryNode |-> "gatherContext",
     maxIterations |-> <<>>,
     nodes |-> {"gatherContext", "ragContext", "analyzeState", "generateBeats",
                "expandBeat"},
     edges |-> <<Edge("gatherContext", "ragContext", Undefined),
                 Edge("ragContext", "analyzeState", Undefined),
                 Edge("analyzeState", "generateBeats", Undefined),
                 Edge("generateBeats", "expandBeat", "beatSelected")>>]

\* buildDialogueRefineGraph()
buildDialogueRefineGraph ==
    [id |-> "dialogue-refine",
     entryNode |-> "gatherProfiles",
     maxIterations |-> <<>>,
     nodes |-> {"gatherProfiles", "ragSamples", "analyzeVoice", "refine", "evaluate"},
     edges |-> <<Edge("gatherProfiles", "ragSamples", Undefined),
                 Edge("ragSamples", "analyzeVoice", Undefined),
                 Edge("analyzeVoice", "refine", Undefined),
                 Edge("refine", "evaluate", Undefined)>>]

\* buildContinuityRepairGraph()
buildContinuityRepairGraph ==
    [id |-> "continuity-repair",
     entryNode |-> "gatherCanon",
     maxIterations |-> <<>>,
     nodes |-> {"gatherCanon", "audit", "repair", "report"},
     edges |-> <<Edge("gatherCanon", "audit", Undefined),
                 Edge("audit", "repair", "shouldRepair"),
                 Edge("audit", "report", Undefined),
                 Edge("repair", "report", Undefined)>>]

\* the states the create...State functions build from the caller's input.
\* Texts and lists are kept as far as a node or a condition looks at them:
\* a list is "none" (empty), "some", or "hasNull" (an entry is null); the
\* object an LLM answer was parsed to is "wellFormed" or "malformed" (the
\* expected arrays are missing); scopeId is "is non-empty"
NoKnowledgeGraph == "No knowledge graph available."

createSceneDraftState ==
    {[breakpoint |-> FALSE, identifiedEntities |-> "wellFormed", constraints |-> "",
      ragSnippets |-> "none", draft |-> "", contradictions |-> "none",
      proposedDeltas |-> "none", evaluation |-> Null, revisionCount |-> 0,
      finalDraft |-> "", kgUpdates |-> "none"]}

createBrainstormState ==
    [breakpoint : {FALSE}, scopeId : BOOLEAN, selectedBeatIndex : {Null},
     characters : {"none"}, ragSnippets : {"none"}, storyState : {""},
     beats : {"none"}, expandedBeat : {Null}]

createDialogueRefineState ==
    [breakpoint : {FALSE}, scopeId : BOOLEAN, characterProfiles : {"none"},
     voiceAnalysis : {Null}, ragSamples : {"none"}, refinedText : {""},
     evaluation : {Null}]

createContinuityRepairState ==
    [breakpoint : {FALSE}, scopeId : BOOLEAN, autoRepair : BOOLEAN, timeline : {""},
     issues : {"none"}, repairedText : {""}, report : {Null}]

\* the context of a pipeline run, as handleRunWorkflow builds it: a progress
\* callback, no breakpoint handler, the knowledge graph and the retrieval
\* index present or not, and an LLM client that answers or fails
PipelineContext ==
    [onBreakpoint : {FALSE}, onProgress : {"returns"}, kg : BOOLEAN, rag : BOOLEAN,
     llm : {"succeeds", "fails"}]

\* the four work modes: graph and initial states
Pipelines ==
    {[graph |-> buildSceneDraftGraph, states |-> createSceneDraftState],
     [graph |-> buildBrainstormGraph, states |-> createBrainstormState],
     [graph |-> buildDialogueRefineGraph, states |-> createDialogueRefineState],
     [graph |-> buildContinuityRepairGraph, states |-> createContinuityRepairState]}

\* the initial states of the runs
InitialStates == [data : {0}, breakpoint : BOOLEAN]

\* context.onProgress: absent, a callback that returns, a callback that throws
ProgressKinds == {Undefined, "returns", "throws"}

WorkflowContext == [onBreakpoint : BOOLEAN, onProgress : ProgressKinds]

WorkflowStatus == {"idle", "running", "paused", "completed", "error", "cancelled"}

\* values a step or a handler can throw: an Error with a message, an Error
\* with an empty message, a string, null
\* (texts are token sequences, so that a message can be searched)
ThrownValues ==
    {[type |-> "Error", text |-> <<"boom">>],
     [type |-> "Error", text |-> <<"">>],
     [type |-> "string", text |-> <<"oops">>],
     [type |-> "null", text |-> <<"">>]}

\* what a throwing progress callback or edge condition throws
CallbackError == [type |-> "Error", text |-> <<"callback failed">>]

NoError == <<>>

Range(s) == {s[i] : i \in 1..Len(s)}

\* ------------------------------------------------------------------ state
VARIABLES
    graph,          \* this.graph
    status,         \* this.status
    pc,             \* where run() is: idle, inStep, inBreakpoint, returned, rejected
    initialState,   \* the caller's argument of run()
    context,        \* the caller's context
    aborted,        \* context.signal.aborted
    currentNodeId,  \* locals of run()
    state,
    stateRef,       \* the object `state` refers to: "initialState" (the caller's) or "own"
    iterations,
    nodesVisited,
    result,         \* the WorkflowRunResult run() resolved with, as <<r>>, or <<>>
    det,            \* the steps and the handler are deterministic functions
    memo,           \* what they did so far on each input (kept when det)
    prev,           \* the earlier run() calls, oldest first (kept when det)
    \* history of the current run() call
    statusWrites,   \* the assignments to this.status of the latest action, in order
    stepCalls,      \* number of node.execute invocations
    stepsSettled,   \* number of node.execute promises that resolved or rejected
    progressCalls,  \* number of onProgress invocations
    progressCall,   \* most recent onProgress invocation, as <<[node, arg]>>
    stepRet,        \* state the most recent node.execute returned, as <<s>>
    bpCalls,        \* onBreakpoint invocations for the most recent step
    bpCall,         \* most recent onBreakpoint invocation, as <<[node, arg]>>
    bpRet,          \* state onBreakpoint returned for the most recent step, as <<s>>
    abortSeen,      \* when the signal was aborted relative to this run
    thrown,         \* what was thrown in this run, as <<[by, value]>>
    \* the rest of the program
    other,          \* a second DAGRunner with its own context and run, or <<>>
    mh,             \* the MessageHandler's fields and its runs, or <<>>
    ragBuilder,     \* the RAGBuilder's fields, index and calls, or <<>>
    kgManager,      \* the KGManager's fields, resource and saves, or <<>>
    registry        \* the stored project registry and its calls, or <<>>

progVars == <<graph, status, pc, initialState, context, aborted, currentNodeId,
              state, stateRef, iterations, nodesVisited, result, det, memo, prev>>
histVars == <<statusWrites, stepCalls, stepsSettled, progressCalls, progressCall,
              stepRet, bpCalls, bpCall, bpRet, abortSeen, thrown>>
vars == <<progVars, histVars>>
serviceVars == <<ragBuilder, kgManager, registry>>
restVars == <<other, mh, serviceVars>>
allVars == <<vars, restVars>>

\* ------------------------------------------------------ pure helpers
\* const maxIter = this.graph.maxIterations ?? DEFAULT_MAX_ITERATIONS
maxIter ==
    IF graph.maxIterations = <<>> THEN DEFAULT_MAX_ITERATIONS
    ELSE graph.maxIterations[1]

\* every id is taken for a node
findNode_anyId(id) == id

\* this.graph.nodes.find((n) => n.id === id)
findNode(id) ==
    LET nodes == IF "nodes" \in DOMAIN graph THEN graph.nodes ELSE NodeIds
    IN IF id \in nodes THEN id ELSE Undefined

\* err.message is truthy
HasMessage(v) == v.type = "Error" /\ v.text # <<"">>

\* String(err)
StringOf(v) == IF v.type = "Error" THEN <<"Error">> ELSE v.text

\* err.message || String(err)
ErrorText(v) == IF HasMessage(v) THEN v.text ELSE StringOf(v)

\* new Error(`Node not found: ${currentNodeId}`)
NodeNotFoundError(id) == [type |-> "Error", text |-> <<"Node not found: ", id>>]

\* `Max iterations (${maxIter}) exceeded`
MaxIterationsError(n) == <<"Max iterations (", ToString(n), ") exceeded">>

\* edge.condition(state)
CondThrows(c, st) == c = "throws"
\* every condition holds
EvalCondition_always(c, st) == TRUE

\* the conditions of the model's graphs and of the pipeline graphs
EvalCondition(c, st) ==
    CASE c = "dataPositive" -> st.data > 0
      [] c = "needsRevision" -> st.contradictions # "none" /\ st.revisionCount < 2
      [] c = "shouldRepair" -> st.autoRepair /\ st.issues # "none"
      [] c = "beatSelected" -> st.selectedBeatIndex # Null
      [] OTHER -> FALSE

NoMatch == "nomatch"
Threw == "threw"

\* for (const edge of edges) if (edge.condition && edge.condition(state)) return edge.to
RECURSIVE ScanConditional(_, _)
ScanConditional(edges, st) ==
    IF edges = <<>> THEN NoMatch
    ELSE LET edge == Head(edges)
         IN IF edge.condition # Undefined
            THEN IF CondThrows(edge.condition, st) THEN Threw
                 ELSE IF EvalCondition(edge.condition, st) THEN edge.to
                 ELSE ScanConditional(Tail(edges), st)
            ELSE ScanConditional(Tail(edges), st)

IsUnconditional(e) == e.condition = Undefined

Reverse(s) == [i \in 1..Len(s) |-> s[Len(s) + 1 - i]]

\* the last matching conditional edge wins
resolveNextNode_lastMatch(fromId, st) ==
    LET edges == SelectSeq(graph.edges, LAMBDA e : e.from = fromId)
        hit == ScanConditional(Reverse(edges), st)
        unconditional == SelectSeq(edges, IsUnconditional)
    IN IF Len(edges) = 0 THEN Null
       ELSE IF hit # NoMatch THEN hit
       ELSE IF Len(unconditional) > 0 THEN Head(unconditional).to
       ELSE Null

\* the last unconditional edge is the default
resolveNextNode_lastDefault(fromId, st) ==
    LET edges == SelectSeq(graph.edges, LAMBDA e : e.from = fromId)
        hit == ScanConditional(edges, st)
        unconditional == SelectSeq(edges, IsUnconditional)
    IN IF Len(edges) = 0 THEN Null
       ELSE IF hit # NoMatch THEN hit
       ELSE IF Len(unconditional) > 0 THEN unconditional[Len(unconditional)].to
       ELSE Null

RECURSIVE ScanInOrder(_, _)
ScanInOrder(edges, st) ==
    IF edges = <<>> THEN Null
    ELSE LET edge == Head(edges)
         IN IF edge.condition = Undefined THEN edge.to
            ELSE IF CondThrows(edge.condition, st) THEN Threw
            ELSE IF EvalCondition(edge.condition, st) THEN edge.to
            ELSE ScanInOrder(Tail(edges), st)

\* the first edge in declaration order that applies wins, default included
resolveNextNode_declOrder(fromId, st) ==
    ScanInOrder(SelectSeq(graph.edges, LAMBDA e : e.from = fromId), st)

\* resolveNextNode: a node id, Null, or Threw when a condition threw
resolveNextNode(fromId, st) ==
    LET edges == SelectSeq(graph.edges, LAMBDA e : e.from = fromId)
        hit == ScanConditional(edges, st)
        unconditional == SelectSeq(edges, IsUnconditional)
    IN IF Len(edges) = 0 THEN Null
       ELSE IF hit # NoMatch THEN hit
       ELSE IF Len(unconditional) > 0 THEN Head(unconditional).to
       ELSE Null

LoopCondition_offByOne(cur, iters) == cur # Null /\ iters <= maxIter

\* while (currentNodeId !== null && iterations < maxIter)
LoopCondition(cur, iters) == cur # Null /\ iters < maxIter

\* if (iterations >= maxIter) after the loop
ExceededCheck(cur, iters) == iters >= maxIter

CancelCheck_never(ab) == FALSE

\* if (context.signal?.aborted) at the top of the loop body and after the
\* breakpoint handler
CancelCheck(ab) == ab

\* the handler is never awaited
BreakpointCheck_never(ctx, st) == FALSE

\* if (context.onBreakpoint && state.__breakpoint)
BreakpointCheck(ctx, st) == ctx.onBreakpoint /\ st.breakpoint

\* delete state.__breakpoint
DeleteMarker(st) == [st EXCEPT !.breakpoint = FALSE]

InitialVisited_kept == nodesVisited

\* const nodesVisited: WorkflowNodeId[] = []
InitialVisited == <<>>

\* the object a step or a handler resolves with, given the object `input`:
\* that same object, when its contents are the same, or a new one
ReturnedRef(returned, input) == IF returned = input THEN {stateRef, "own"} ELSE {"own"}

\* let state = initialState
CopyRef_alias == "initialState"

\* the spread of line 40 makes a new object
CopyRef == "own"

\* let state = { ...initialState }
CopyState(init) == [f \in DOMAIN init |-> init[f]]

CatchState_rollback(st, init) == CopyState(init)

\* finalState of the catch block: the local `state`
CatchState(st, init) == st

\* the callback sees the state only after the pause marker was deleted
ProgressArg_afterDelete(returned, deleted) == deleted

\* context.onProgress(currentNodeId, state): the state the step returned,
\* before the delete
ProgressArg(returned, deleted) == returned

\* the state onBreakpoint is called with: what the step returned, after
\* the delete
HandlerArg(returned, deleted) == deleted

ResumeState_ignored(handlerResult, before) == before

\* state = await context.onBreakpoint(currentNodeId, state)
ResumeState(handlerResult, before) == handlerResult

\* ------------------------------------------------- the body of run()
\* the result is returned without the assignment to this.status before it
Return_statusNotSet(st, fin, vis, err, sw) ==
    /\ pc' = "returned"
    /\ status' = IF sw = <<>> THEN status ELSE sw[Len(sw)]
    /\ statusWrites' = sw
    /\ nodesVisited' = vis
    /\ result' = <<[status |-> st, finalState |-> fin, nodesVisited |-> vis, error |-> err]>>

\* return { status, finalState, nodesVisited, error? }
Return(st, fin, vis, err, sw) ==
    /\ pc' = "returned"
    /\ status' = st
    /\ statusWrites' = Append(sw, st)
    /\ nodesVisited' = vis
    /\ result' = <<[status |-> st, finalState |-> fin, nodesVisited |-> vis, error |-> err]>>

\* catch (err) { this.status = 'error'; return {..., error: err.message || String(err)} }
\* reading err.message of null throws inside the catch block: run() rejects
Catch(by, v, st, vis, sw) ==
    /\ thrown' = <<[by |-> by, value |-> v]>>
    /\ IF v.type = "null"
       THEN /\ pc' = "rejected"
            /\ status' = "error"
            /\ statusWrites' = Append(sw, "error")
            /\ nodesVisited' = vis
            /\ result' = <<>>
       ELSE Return("error", CatchState(st, initialState), vis, ErrorText(v), sw)

\* lines 46-60 and 85-96: the loop head, from the test of the while
\* condition to the invocation of the node's step, or to the return.
\* ab is signal.aborted, sw the status assignments of this action so far,
\* calls the step invocations so far
LoopHead(cur, st, iters, vis, ab, sw, calls) ==
    /\ currentNodeId' = cur
    /\ state' = st
    /\ iterations' = iters
    /\ IF LoopCondition(cur, iters)
       THEN IF CancelCheck(ab)
            THEN /\ Return("cancelled", st, vis, NoError, sw)
                 /\ stepCalls' = calls /\ thrown' = <<>>
            ELSE IF findNode(cur) = Undefined
            THEN /\ Catch("findNode", NodeNotFoundError(cur), st, vis, sw)
                 /\ stepCalls' = calls
            ELSE /\ nodesVisited' = Append(vis, cur)
                 /\ pc' = "inStep"
                 /\ status' = IF sw = <<>> THEN status ELSE sw[Len(sw)]
                 /\ statusWrites' = sw
                 /\ stepCalls' = calls + 1
                 /\ result' = <<>>
                 /\ thrown' = <<>>
       ELSE /\ IF ExceededCheck(cur, iters)
               THEN Return("error", st, vis, MaxIterationsError(maxIter), sw)
               ELSE Return("completed", st, vis, NoError, sw)
            /\ stepCalls' = calls /\ thrown' = <<>>

\* lines 81-82: resolve the next node, count the iteration, loop
Advance(st, sw) ==
    LET next == resolveNextNode(currentNodeId, st)
    IN IF next = Threw
       THEN /\ Catch("condition", CallbackError, st, nodesVisited, sw)
            /\ state' = st
            /\ UNCHANGED <<currentNodeId, iterations, stepCalls>>
       ELSE LoopHead(next, st, iterations + 1, nodesVisited, aborted, sw, stepCalls)

\* ------------------------------------------------------------ environment
\* node.execute and onBreakpoint resolve with a state or reject with a value
Outcomes ==
    [kind : {"return"}, state : WorkflowState, value : {CallbackError}]
    \cup [kind : {"throw"}, state : {[data |-> 0, breakpoint |-> FALSE]},
          value : ThrownValues]

\* ------------------------------------------------- the pipeline nodes
Returns(states) == {[kind |-> "return", state |-> s, value |-> CallbackError] : s \in states}

Throws(v) == {[kind |-> "throw", state |-> [data |-> 0, breakpoint |-> FALSE], value |-> v]}

\* reading a property of null or undefined, spreading undefined
TypeError == [type |-> "Error", text |-> <<"TypeError">>]
LlmError == [type |-> "Error", text |-> <<"completion failed">>]
RagError == [type |-> "Error", text |-> <<"search failed">>]

\* await ctx.llm.complete(...), then a result built from response.content
Complete(ctx, states) == IF ctx.llm = "fails" THEN Throws(LlmError) ELSE Returns(states)

\* scene-draft.ts
identifyNode(st, ctx) ==
    Complete(ctx, {[st EXCEPT !.identifiedEntities = v] :
                     v \in {st.identifiedEntities, "wellFormed", "malformed"}})

constraintsNode(st, ctx) ==
    IF ~ctx.kg THEN Returns({[st EXCEPT !.constraints = NoKnowledgeGraph]})
    ELSE IF st.identifiedEntities = "malformed" THEN Throws(TypeError)
    ELSE Complete(ctx, {[st EXCEPT !.constraints = c] : c \in {"", NoKnowledgeGraph, "text"}})

ragNode(st, ctx) ==
    IF ~ctx.rag THEN Returns({[st EXCEPT !.ragSnippets = "none"]})
    ELSE IF st.identifiedEntities = "malformed" THEN Throws(TypeError)
    ELSE Returns({[st EXCEPT !.ragSnippets = r] : r \in {"none", "some"}})
         \cup Throws(RagError)

generateNode(st, ctx) == Complete(ctx, {[st EXCEPT !.draft = "generated"]})

continuityNode(st, ctx) ==
    IF st.constraints \in {"", NoKnowledgeGraph}
    THEN Returns({[st EXCEPT !.contradictions = "none"]})
    ELSE Complete(ctx, {[st EXCEPT !.contradictions = c] : c \in {"none", "some"}})

deltasNode(st, ctx) ==
    Complete(ctx, {[st EXCEPT !.proposedDeltas = d] : d \in {"none", "some"}})

\* the revision is not counted
reviseNode_notCounted(st, ctx) ==
    Complete(ctx, {[st EXCEPT !.draft = "revised", !.contradictions = "none"]})

reviseNode(st, ctx) ==
    Complete(ctx, {[st EXCEPT !.draft = "revised",
                             !.revisionCount = st.revisionCount + 1,
                             !.contradictions = "none"]})

evaluateNode(st, ctx) == Complete(ctx, {[st EXCEPT !.evaluation = "parsed"]})

finalizeNode(st, ctx) ==
    Returns({[st EXCEPT !.finalDraft = st.draft, !.kgUpdates = st.proposedDeltas]})

\* brainstorm-beats
gatherContextNode(st, ctx) ==
    IF ctx.kg /\ st.scopeId
    THEN Returns({[st EXCEPT !.characters = "some"], st})
    ELSE Returns({st})

ragContextNode(st, ctx) ==
    IF ctx.rag
    THEN Returns({[st EXCEPT !.ragSnippets = r] : r \in {"none", "some"}} \cup {st})
    ELSE Returns({st})

analyzeStateNode(st, ctx) == Complete(ctx, {[st EXCEPT !.storyState = "analysed"]})

generateBeatsNode(st, ctx) ==
    Complete(ctx, {[st EXCEPT !.beats = b] : b \in {"none", "some"}})

expandBeatNode(st, ctx) ==
    IF st.selectedBeatIndex = Null THEN Returns({st})
    ELSE Complete(ctx, {[st EXCEPT !.expandedBeat = "parsed"]})

\* dialogue-refine.ts
gatherProfilesNode(st, ctx) ==
    IF ctx.kg /\ st.scopeId
    THEN Returns({[st EXCEPT !.characterProfiles = "some"], st})
    ELSE Returns({st})

ragSamplesNode(st, ctx) ==
    IF ~ctx.rag THEN Returns({st})
    ELSE Returns({[st EXCEPT !.ragSamples = r] : r \in {"none", "some"}})

analyzeVoiceNode(st, ctx) ==
    Complete(ctx, {[st EXCEPT !.voiceAnalysis = v] : v \in {Null, "parsed"}})

refineNode(st, ctx) == Complete(ctx, {[st EXCEPT !.refinedText = "refined"]})

dialogueEvaluateNode(st, ctx) ==
    Complete(ctx, {[st EXCEPT !.evaluation = e] : e \in {Null, "parsed"}})

\* continuity-repair.ts
gatherCanonNode(st, ctx) ==
    IF ~ctx.kg
    THEN Returns({[st EXCEPT !.timeline = "No knowledge graph available for canon verification."]})
    ELSE IF st.scopeId
    THEN Returns({[st EXCEPT !.timeline = t] : t \in {"", "events"}})
    ELSE Returns({[st EXCEPT !.timeline = ""]})

\* issues = JSON.parse(...) of the first [...] of the answer: any JSON array
auditNode(st, ctx) ==
    Complete(ctx, {[st EXCEPT !.issues = i] : i \in {"none", "some", "hasNull"}})

repairNode(st, ctx) ==
    IF st.issues = "none" THEN Returns({[st EXCEPT !.repairedText = "text"]})
    ELSE Complete(ctx, {[st EXCEPT !.repairedText = t] : t \in {"text", "modified"}})

\* state.issues.filter((i) => i.severity === 'critical') reads a property
\* of each entry
reportNode(st, ctx) ==
    IF st.issues = "hasNull" THEN Throws(TypeError)
    ELSE Complete(ctx, {[st EXCEPT !.report = r] : r \in {Null, "parsed"}})

\* node.execute of the node `id` of the pipeline graph g
execute(g, nodeId, st, ctx) ==
    CASE g.id = "outline-to-scene-draft" ->
           (CASE nodeId = "identify" -> identifyNode(st, ctx)
             [] nodeId = "constraints" -> constraintsNode(st, ctx)
             [] nodeId = "rag" -> ragNode(st, ctx)
             [] nodeId = "generate" -> generateNode(st, ctx)
             [] nodeId = "continuity" -> continuityNode(st, ctx)
             [] nodeId = "deltas" -> deltasNode(st, ctx)
             [] nodeId = "revise" -> reviseNode(st, ctx)
             [] nodeId = "evaluate" -> evaluateNode(st, ctx)
             [] nodeId = "finalize" -> finalizeNode(st, ctx))
      [] g.id = "brainstorm-beats" ->
           (CASE nodeId = "gatherContext" -> gatherContextNode(st, ctx)
             [] nodeId = "ragContext" -> ragContextNode(st, ctx)
             [] nodeId = "analyzeState" -> analyzeStateNode(st, ctx)
             [] nodeId = "generateBeats" -> generateBeatsNode(st, ctx)
             [] nodeId = "expandBeat" -> expandBeatNode(st, ctx))
      [] g.id = "dialogue-refine" ->
           (CASE nodeId = "gatherProfiles" -> gatherProfilesNode(st, ctx)
             [] nodeId = "ragSamples" -> ragSamplesNode(st, ctx)
             [] nodeId = "analyzeVoice" -> analyzeVoiceNode(st, ctx)
             [] nodeId = "refine" -> refineNode(st, ctx)
             [] nodeId = "evaluate" -> dialogueEvaluateNode(st, ctx))
      [] g.id = "continuity-repair" ->
           (CASE nodeId = "gatherCanon" -> gatherCanonNode(st, ctx)
             [] nodeId = "audit" -> auditNode(st, ctx)
             [] nodeId = "repair" -> repairNode(st, ctx)
             [] nodeId = "report" -> reportNode(st, ctx))

\* what `who` can do on this input: what the node's code does when the
\* graph is a pipeline graph, else anything, but the same thing as before
\* when it is a deterministic function
OutcomesOf(who, id, st) ==
    LET key == <<who, id, st>>
    IN IF "id" \in DOMAIN graph /\ who = "step" THEN execute(graph, id, st, context)
       ELSE IF det /\ key \in DOMAIN memo THEN {memo[key]}
       ELSE Outcomes

Remember(who, id, st, out) ==
    memo' = IF det THEN (<<who, id, st>> :> out) @@ memo ELSE memo

\* ---------------------------------------------------------------- actions
InitWith(graphs, states, contexts, d) ==
    /\ graph \in graphs
    /\ initialState \in states
    /\ context \in contexts
    /\ det = d
    /\ status = "idle"
    /\ pc = "idle"
    /\ aborted = FALSE
    /\ currentNodeId = Null
    /\ state = initialState
    /\ stateRef = "own"
    /\ iterations = 0
    /\ nodesVisited = <<>>
    /\ result = <<>>
    /\ memo = <<>>
    /\ prev = <<>>
    /\ statusWrites = <<>>
    /\ stepCalls = 0
    /\ stepsSettled = 0
    /\ progressCalls = 0
    /\ progressCall = <<>>
    /\ stepRet = <<>>
    /\ bpCalls = 0
    /\ bpCall = <<>>
    /\ bpRet = <<>>
    /\ abortSeen = "never"
    /\ thrown = <<>>

\* one executor, driven directly by its caller
NoServices == ragBuilder = <<>> /\ kgManager = <<>> /\ registry = <<>>

Alone == other = <<>> /\ mh = <<>> /\ NoServices

Init == InitWith(WorkflowGraph, InitialStates, WorkflowContext, FALSE) /\ Alone

\* the caller aborts the signal's controller, before calling run() or
\* while the run is suspended in an await (where everything is
\* deterministic, so is the signal: it does not change during a run)
Abort ==
    /\ ~aborted
    /\ UNCHANGED restVars
    /\ pc \in {"idle", "inStep", "inBreakpoint"}
    /\ det => pc = "idle"
    /\ aborted' = TRUE
    /\ abortSeen' = IF pc = "idle" THEN abortSeen ELSE "during"
    /\ UNCHANGED <<graph, status, pc, initialState, context, currentNodeId, state, stateRef,
                   iterations, nodesVisited, result, det, memo, prev>>
    /\ UNCHANGED <<statusWrites, stepCalls, stepsSettled, progressCalls, progressCall,
                   stepRet, bpCalls, bpCall, bpRet, thrown>>

\* run(initialState, context): lines 36-43, then the loop up to the first
\* await.  A later call, on this executor or on a new DAGRunner(graph),
\* passes the same arguments, with the same signal or with the signal of a
\* fresh controller.  (The 'idle' of a new executor is overwritten by line
\* 43 before anything can read it.)
Run ==
    /\ pc \in {"idle", "returned", "rejected"}
    /\ UNCHANGED restVars
    /\ det => Len(prev) < MaxRuns - 1 \/ pc = "idle"
    /\ \E freshSignal \in BOOLEAN :
         LET ab == IF freshSignal THEN FALSE ELSE aborted
         IN /\ aborted' = ab
            /\ abortSeen' = IF ab THEN "before" ELSE "never"
            /\ prev' = IF det /\ pc # "idle"
                       THEN Append(prev, [abortSeen |-> abortSeen, pc |-> pc,
                                          result |-> result])
                       ELSE prev
            /\ progressCalls' = 0 /\ progressCall' = <<>> /\ stepsSettled' = 0
            /\ stepRet' = <<>> /\ bpCalls' = 0 /\ bpCall' = <<>> /\ bpRet' = <<>>
            /\ LoopHead(graph.entryNode, CopyState(initialState), 0, InitialVisited,
                        ab, <<"running">>, 0)
    /\ stateRef' = CopyRef
    /\ UNCHANGED <<graph, initialState, context, det, memo>>

\* lines 60-82: node.execute resolved with out.state; progress callback,
\* breakpoint check, then either the await of the handler or the next node
StepReturns ==
    /\ pc = "inStep"
    /\ UNCHANGED restVars
    /\ \E out \in OutcomesOf("step", currentNodeId, state) :
         /\ out.kind = "return"
         /\ Remember("step", currentNodeId, state, out)
         /\ stepRet' = <<out.state>>
         /\ \E ref \in ReturnedRef(out.state, state) :
              /\ stateRef' = ref
              /\ initialState' =
                   IF /\ ref = "initialState"
                      /\ context.onProgress # "throws"
                      /\ BreakpointCheck(context, out.state)
                   THEN DeleteMarker(initialState)
                   ELSE initialState
         /\ stepsSettled' = stepsSettled + 1
         /\ bpRet' = <<>>
         /\ progressCalls' = IF context.onProgress = Undefined THEN progressCalls
                             ELSE progressCalls + 1
         /\ progressCall' = IF context.onProgress = Undefined THEN progressCall
                            ELSE <<[node |-> currentNodeId,
                                    arg |-> ProgressArg(out.state, DeleteMarker(out.state))]>>
         /\ IF context.onProgress = "throws"
            THEN /\ Catch("onProgress", CallbackError, out.state, nodesVisited, <<>>)
                 /\ state' = out.state
                 /\ bpCalls' = 0
                 /\ UNCHANGED <<currentNodeId, iterations, stepCalls, bpCall>>
            ELSE IF BreakpointCheck(context, out.state)
            THEN /\ status' = "paused"
                 /\ statusWrites' = <<"paused">>
                 /\ state' = DeleteMarker(out.state)
                 /\ pc' = "inBreakpoint"
                 /\ bpCalls' = 1
                 /\ bpCall' = <<[node |-> currentNodeId,
                                 arg |-> HandlerArg(out.state, DeleteMarker(out.state))]>>
                 /\ UNCHANGED <<currentNodeId, iterations, nodesVisited, result,
                                stepCalls, thrown>>
            ELSE /\ bpCalls' = 0
                 /\ UNCHANGED bpCall
                 /\ Advance(out.state, <<>>)
    /\ UNCHANGED <<graph, context, aborted, det, prev, abortSeen>>

\* node.execute rejected: the catch block of lines 97-105
StepThrows ==
    /\ pc = "inStep"
    /\ UNCHANGED restVars
    /\ \E out \in OutcomesOf("step", currentNodeId, state) :
         /\ out.kind = "throw"
         /\ Remember("step", currentNodeId, state, out)
         /\ Catch("step", out.value, state, nodesVisited, <<>>)
    /\ stepsSettled' = stepsSettled + 1
    /\ UNCHANGED <<graph, initialState, context, aborted, currentNodeId, state, stateRef,
                   iterations, det, prev>>
    /\ UNCHANGED <<stepCalls, progressCalls, progressCall, stepRet, bpCalls, bpCall, bpRet,
                   abortSeen>>

\* lines 71-82: onBreakpoint resolved with out.state
BreakpointReturns ==
    /\ pc = "inBreakpoint"
    /\ UNCHANGED restVars
    /\ \E out \in OutcomesOf("onBreakpoint", currentNodeId, state) :
         LET st == ResumeState(out.state, state)
         IN /\ out.kind = "return"
            /\ Remember("onBreakpoint", currentNodeId, state, out)
            /\ bpRet' = <<out.state>>
            /\ stateRef' \in ReturnedRef(out.state, state)
            /\ IF CancelCheck(aborted)
               THEN /\ Return("cancelled", st, nodesVisited, NoError, <<"running">>)
                    /\ state' = st
                    /\ UNCHANGED <<currentNodeId, iterations, stepCalls, thrown>>
               ELSE Advance(st, <<"running">>)
    /\ UNCHANGED <<graph, initialState, context, aborted, det, prev>>
    /\ UNCHANGED <<stepsSettled, progressCalls, progressCall, stepRet, bpCalls, bpCall,
                   abortSeen>>

\* onBreakpoint rejected: the catch block
BreakpointThrows ==
    /\ pc = "inBreakpoint"
    /\ UNCHANGED restVars
    /\ \E out \in OutcomesOf("onBreakpoint", currentNodeId, state) :
         /\ out.kind = "throw"
         /\ Remember("onBreakpoint", currentNodeId, state, out)
         /\ Catch("onBreakpoint", out.value, state, nodesVisited, <<>>)
    /\ UNCHANGED <<graph, initialState, context, aborted, currentNodeId, state, stateRef,
                   iterations, det, prev>>
    /\ UNCHANGED <<stepCalls, stepsSettled, progressCalls, progressCall, stepRet, bpCalls,
                   bpCall, bpRet,
                   abortSeen>>

Next ==
    \/ Run
    \/ StepReturns
    \/ StepThrows
    \/ BreakpointReturns
    \/ BreakpointThrows
    \/ Abort

Spec == Init /\ [][Next]_vars

\* runs on graphs with longer edge lists, with a breakpoint handler
InitBranching ==
    /\ InitWith(BranchingGraph, {[data |-> 0, breakpoint |-> FALSE]},
                {[onBreakpoint |-> TRUE, onProgress |-> Undefined]}, FALSE)
    /\ Alone

SpecBranching == InitBranching /\ [][Next]_vars

\* runs in which the steps and the handler are deterministic functions
InitDet ==
    /\ InitWith(SimpleGraph, {[data |-> 0, breakpoint |-> FALSE]},
                [onBreakpoint : BOOLEAN, onProgress : {Undefined}], TRUE)
    /\ Alone

SpecDet == InitDet /\ [][Next]_vars

\* runs on graphs that omit maxIterations
InitDefault ==
    /\ InitWith(DefaultGraph, {[data |-> 0, breakpoint |-> FALSE]},
                [onBreakpoint : BOOLEAN, onProgress : {Undefined}], FALSE)
    /\ Alone

SpecDefault == InitDefault /\ [][Next]_vars

\* one of the four pipelines, run on a DAGRunner of its own
InitPipeline ==
    /\ \E p \in Pipelines : InitWith({p.graph}, p.states, PipelineContext, FALSE)
    /\ Alone

NextPipeline ==
    \/ Run
    \/ StepReturns
    \/ StepThrows
    \/ Abort

SpecPipeline == InitPipeline /\ [][NextPipeline]_vars

\* ---------------------------------------------------------- two executors
\* what one DAGRunner and its run() call consist of: the fields of the
\* instance, the arguments and locals of the call, and the calls it made
ExecutorState ==
    [graph |-> graph, status |-> status, pc |-> pc, initialState |-> initialState,
     stateRef |-> stateRef,
     context |-> context, aborted |-> aborted, currentNodeId |-> currentNodeId,
     state |-> state, iterations |-> iterations, nodesVisited |-> nodesVisited,
     result |-> result, statusWrites |-> statusWrites, stepCalls |-> stepCalls,
     stepsSettled |-> stepsSettled, progressCalls |-> progressCalls,
     progressCall |-> progressCall,
     stepRet |-> stepRet, bpCalls |-> bpCalls, bpCall |-> bpCall, bpRet |-> bpRet,
     abortSeen |-> abortSeen, thrown |-> thrown]

\* new DAGRunner(g), not yet run
IdleExecutor(g, init, ctx) ==
    [graph |-> g, status |-> "idle", pc |-> "idle", initialState |-> init,
     stateRef |-> "own",
     context |-> ctx, aborted |-> FALSE, currentNodeId |-> Null,
     state |-> init, iterations |-> 0, nodesVisited |-> <<>>,
     result |-> <<>>, statusWrites |-> <<>>, stepCalls |-> 0,
     stepsSettled |-> 0, progressCalls |-> 0, progressCall |-> <<>>,
     stepRet |-> <<>>, bpCalls |-> 0, bpCall |-> <<>>, bpRet |-> <<>>,
     abortSeen |-> "never", thrown |-> <<>>]

\* the graphs of the two executors
TwoGraph ==
    [entryNode : {"A"},
     edges : {<<>>, <<[from |-> "A", to |-> "B", condition |-> Undefined]>>},
     maxIterations : {<<2>>}]

\* the executor that acts next becomes `e`, all fields but status, which
\* is one field shared by every instance
Resume_sharedStatus(e) ==
    /\ graph' = e.graph /\ status' = status /\ pc' = e.pc
    /\ initialState' = e.initialState /\ context' = e.context
    /\ stateRef' = e.stateRef
    /\ aborted' = e.aborted /\ currentNodeId' = e.currentNodeId
    /\ state' = e.state /\ iterations' = e.iterations
    /\ nodesVisited' = e.nodesVisited /\ result' = e.result
    /\ statusWrites' = e.statusWrites /\ stepCalls' = e.stepCalls
    /\ stepsSettled' = e.stepsSettled /\ progressCalls' = e.progressCalls
    /\ progressCall' = e.progressCall
    /\ stepRet' = e.stepRet /\ bpCalls' = e.bpCalls /\ bpCall' = e.bpCall
    /\ bpRet' = e.bpRet /\ abortSeen' = e.abortSeen /\ thrown' = e.thrown

\* the executor that acts next becomes `e`: every field of DAGRunner is an
\* instance field and everything else is local to the run() call
Resume(e) ==
    /\ graph' = e.graph /\ status' = e.status /\ pc' = e.pc
    /\ initialState' = e.initialState /\ context' = e.context
    /\ stateRef' = e.stateRef
    /\ aborted' = e.aborted /\ currentNodeId' = e.currentNodeId
    /\ state' = e.state /\ iterations' = e.iterations
    /\ nodesVisited' = e.nodesVisited /\ result' = e.result
    /\ statusWrites' = e.statusWrites /\ stepCalls' = e.stepCalls
    /\ stepsSettled' = e.stepsSettled /\ progressCalls' = e.progressCalls
    /\ progressCall' = e.progressCall
    /\ stepRet' = e.stepRet /\ bpCalls' = e.bpCalls /\ bpCall' = e.bpCall
    /\ bpRet' = e.bpRet /\ abortSeen' = e.abortSeen /\ thrown' = e.thrown

\* between two synchronous stretches of one run, the event loop may run a
\* stretch of the other executor's run, or the caller may call into it
Switch ==
    /\ other # <<>>
    /\ Resume(other)
    /\ other' = ExecutorState
    /\ UNCHANGED <<det, memo, prev, mh, serviceVars>>

\* each executor is run once
RunOnce == pc = "idle" /\ Run

InitTwo ==
    /\ InitWith(TwoGraph, {[data |-> 0, breakpoint |-> FALSE]},
                {[onBreakpoint |-> TRUE, onProgress |-> Undefined]}, FALSE)
    /\ other \in {IdleExecutor(g, [data |-> 0, breakpoint |-> FALSE],
                                [onBreakpoint |-> TRUE, onProgress |-> Undefined]) :
                     g \in TwoGraph}
    /\ mh = <<>>
    /\ NoServices

NextTwo ==
    \/ RunOnce
    \/ StepReturns
    \/ StepThrows
    \/ BreakpointReturns
    \/ BreakpointThrows
    \/ Abort
    \/ Switch

SpecTwo == InitTwo /\ [][NextTwo]_allVars

\* --------------------------------------------------------- MessageHandler
\* mh.activeRunner and mh.activeWorkflowAbort are 0 for null, else the
\* index in mh.runs of the run whose DAGRunner / AbortController they hold;
\* a run is [status, settled, aborted]: getStatus() of its DAGRunner,
\* whether its run() promise has settled, whether its signal is aborted;
\* mh.response is what the last message handler returned;
\* mh.lastWorkflowResult is <<>> for null, else <<[run, status]>>
NewHandler == [activeRunner |-> 0, activeWorkflowAbort |-> 0, runs |-> <<>>,
               response |-> "none", lastWorkflowResult |-> <<>>]

\* the guard lets every message through
AlreadyRunning_never == FALSE

\* if (this.activeRunner) { status === 'running' || status === 'paused' }
AlreadyRunning ==
    /\ mh.activeRunner # 0
    /\ mh.runs[mh.activeRunner].status \in {"running", "paused"}

\* the statuses run() can end with: 'cancelled' only under an aborted signal
SettleStatuses(run) ==
    IF run.aborted THEN {"completed", "error", "cancelled"} ELSE {"completed", "error"}

\* handleRunWorkflow with a valid payload: lines 258-263, then 326-376 up
\* to the first await inside runner.run(), which sets status 'running' and
\* invokes the entry node's step under the fresh signal
HandleRunWorkflow ==
    /\ Len(mh.runs) < MaxWorkflows
    /\ ~AlreadyRunning
    /\ mh' = [activeRunner |-> Len(mh.runs) + 1,
              activeWorkflowAbort |-> Len(mh.runs) + 1,
              runs |-> Append(mh.runs, [status |-> "running", settled |-> FALSE,
                                        aborted |-> FALSE]),
              response |-> "started",
              lastWorkflowResult |-> mh.lastWorkflowResult]
    /\ UNCHANGED <<vars, other, serviceVars>>

\* handleRunWorkflow refused: 'A workflow is already running. Cancel it first.'
HandleRunWorkflowRefused ==
    /\ AlreadyRunning
    /\ mh' = [mh EXCEPT !.response = "already running"]
    /\ UNCHANGED <<vars, other, serviceVars>>

\* handleCancelWorkflow: lines 401-409
HandleCancelWorkflow ==
    /\ mh.activeWorkflowAbort # 0
    /\ mh' = [activeRunner |-> 0,
              activeWorkflowAbort |-> 0,
              runs |-> [mh.runs EXCEPT ![mh.activeWorkflowAbort].aborted = TRUE],
              response |-> "cancelled",
              lastWorkflowResult |-> mh.lastWorkflowResult]
    /\ UNCHANGED <<vars, other, serviceVars>>

\* handleCancelWorkflow with no controller held: 'No workflow is running.'
HandleCancelWorkflowRefused ==
    /\ mh.activeWorkflowAbort = 0
    /\ mh' = [mh EXCEPT !.response = "no workflow"]
    /\ UNCHANGED <<vars, other, serviceVars>>

\* the promise of run i settles, and its then / catch callback runs: lines
\* 352-372
RunSettles ==
    \E i \in 1..Len(mh.runs) :
      /\ ~mh.runs[i].settled
      /\ \E st \in SettleStatuses(mh.runs[i]) :
           mh' = [activeRunner |-> 0,
                  activeWorkflowAbort |-> 0,
                  runs |-> [mh.runs EXCEPT ![i] = [status |-> st, settled |-> TRUE,
                                                   aborted |-> mh.runs[i].aborted]],
                  response |-> mh.response,
                  lastWorkflowResult |-> <<[run |-> i, status |-> st]>>]
      /\ UNCHANGED <<vars, other, serviceVars>>

InitHandler ==
    /\ InitWith({[entryNode |-> "A", edges |-> <<>>, maxIterations |-> <<>>]},
                {[data |-> 0, breakpoint |-> FALSE]},
                {[onBreakpoint |-> FALSE, onProgress |-> "returns"]}, FALSE)
    /\ other = <<>>
    /\ mh = NewHandler
    /\ NoServices

NextHandler ==
    \/ HandleRunWorkflow
    \/ HandleRunWorkflowRefused
    \/ HandleCancelWorkflow
    \/ HandleCancelWorkflowRefused
    \/ RunSettles

SpecHandler == InitHandler /\ [][NextHandler]_allVars

\* ------------------------------------------------------------ properties
Returned == pc = "returned"
Res == result[1]
NothingThrown == thrown = <<>>
NeverAborted == abortSeen = "never" /\ ~aborted
OutEdges(id) == {i \in 1..Len(graph.edges) : graph.edges[i].from = id}
Last(s) == s[Len(s)]

TypeOK ==
    /\ status \in WorkflowStatus
    /\ pc \in {"idle", "inStep", "inBreakpoint", "returned", "rejected"}
    /\ iterations \in 0..maxIter
    /\ Len(nodesVisited) <= maxIter


\* C1: on a graph whose entry node has no outgoing edges, for every
\* maxIterations >= 1, when nothing throws and the signal is never aborted,
\* run() returns 'completed' with nodesVisited = [entryNode] and no error
C1_SinkEntryCompletes ==
    (/\ Returned /\ NothingThrown /\ NeverAborted
     /\ graph.entryNode \in NodeIds
     /\ OutEdges(graph.entryNode) = {})
    => /\ Res.status = "completed"
       /\ Res.nodesVisited = <<graph.entryNode>>
       /\ Res.error = NoError

\* every node of the graph resolves, on every state, to a node of the graph
AlwaysResolves ==
    /\ graph.entryNode \in NodeIds
    /\ \A id \in NodeIds, st \in WorkflowState : resolveNextNode(id, st) \in NodeIds

\* C2: on a graph in which every node always resolves to an existing next
\* node, when nothing throws and the signal is never aborted, run() returns
\* 'error' with exactly maxIterations nodes visited and a message that
\* mentions maxIterations
C2_CycleHitsBound ==
    (Returned /\ NothingThrown /\ NeverAborted /\ AlwaysResolves)
    => /\ Res.status = "error"
       /\ Len(Res.nodesVisited) = maxIter
       /\ ToString(maxIter) \in Range(Res.error)
       /\ stepCalls = maxIter

C2_Witness ==
    /\ Returned /\ NothingThrown /\ NeverAborted /\ AlwaysResolves
    /\ graph.edges = <<[from |-> "A", to |-> "B", condition |-> Undefined],
                       [from |-> "B", to |-> "A", condition |-> Undefined]>>
    /\ maxIter = MaxIter
    /\ Res.nodesVisited = [i \in 1..MaxIter |-> IF i % 2 = 1 THEN "A" ELSE "B"]
    /\ Res.status = "error"

\* C3: a run() called with an already aborted signal returns 'cancelled'
\* with no node visited, the copied initial state and no error, without
\* invoking a step, the progress callback or the breakpoint handler, also
\* when the entry node is missing
C3_PreAbortedCancels ==
    (abortSeen = "before")
    => /\ Returned
       /\ Res.status = "cancelled"
       /\ Res.nodesVisited = <<>>
       /\ Res.finalState = CopyState(initialState)
       /\ Res.error = NoError
       /\ stepCalls = 0 /\ progressCalls = 0 /\ bpCalls = 0
       /\ NothingThrown

C3_Witness ==
    /\ abortSeen = "before" /\ Returned
    /\ graph.entryNode = MissingId
    /\ Res.status = "cancelled"

\* node.execute of the current node resolved in this step
StepReturned ==
    /\ pc = "inStep" /\ aborted' = aborted
    /\ thrown' = <<>> \/ thrown'[1].by # "step"

\* onBreakpoint resolved in this step
HandlerReturned == pc = "inBreakpoint" /\ aborted' = aborted /\ thrown' = <<>>

\* while the handler is awaited: status is 'paused', the handler has been
\* invoked once for this step, with the node that set the marker and the
\* state that node returned (from which line 70 removed the marker)
C4_WhilePaused ==
    pc = "inBreakpoint"
    => /\ status = "paused"
       /\ context.onBreakpoint /\ stepRet[1].breakpoint
       /\ bpCalls = 1
       /\ bpCall[1].node = Last(nodesVisited)
       /\ bpCall[1].arg = DeleteMarker(stepRet[1])
       /\ bpCall[1].arg.data = stepRet[1].data

C4_Transitions ==
    /\ (StepReturned /\ thrown' = <<>> /\ context.onBreakpoint /\ stepRet'[1].breakpoint)
       => pc' = "inBreakpoint" /\ bpCalls' = 1
    /\ HandlerReturned
       => /\ Head(statusWrites') = "running"
          /\ bpCalls' = 1
          /\ state' = bpRet'[1]
          /\ pc' = "inStep" => status' = "running" /\ Last(nodesVisited') = currentNodeId'
          /\ ~aborted => /\ iterations' = iterations + 1
                         /\ currentNodeId' = resolveNextNode(currentNodeId, bpRet'[1])

\* C4: when a step returns the pause marker and onBreakpoint is set, status
\* is 'paused' while the handler is awaited and 'running' afterwards, the
\* handler is invoked exactly once for that step with the node's id and the
\* state the node returned, and the state the handler returns is the one
\* used for edge resolution and passed to the next node's step
C4_BreakpointProtocol == [](C4_WhilePaused) /\ [][C4_Transitions]_vars

C4_Witness ==
    /\ pc = "inStep" /\ stepCalls = 2
    /\ graph.edges = <<[from |-> "A", to |-> "B", condition |-> "dataPositive"]>>
    /\ stepRet = <<[data |-> 0, breakpoint |-> TRUE]>>
    /\ bpCall = <<[node |-> "A", arg |-> [data |-> 0, breakpoint |-> FALSE]]>>
    /\ bpRet = <<[data |-> 1, breakpoint |-> FALSE]>>
    /\ state = bpRet[1]
    /\ nodesVisited = <<"A", "B">>
    /\ status = "running"

\* the k-th step threw a value that carries a message
StepThrewMessage ==
    /\ pc = "returned" /\ thrown # <<>>
    /\ thrown[1].by = "step" /\ HasMessage(thrown[1].value)

C5_ErrorResult ==
    /\ Res.status = "error"
    /\ Res.error = thrown[1].value.text
    /\ Res.nodesVisited = nodesVisited
    /\ Len(nodesVisited) = stepCalls
    /\ Last(nodesVisited) = currentNodeId

\* C5 as stated: when the k-th step throws, finalState is the state the
\* (k-1)-th step returned (the copied initial state when k = 1)
C5_FinalStateIsPriorStepResult ==
    StepThrewMessage
    => /\ C5_ErrorResult
       /\ Res.finalState = IF stepCalls = 1 THEN CopyState(initialState) ELSE stepRet[1]

\* C5, amended: when the k-th step throws, run() returns 'error' with the
\* thrown message, the nodes executed so far ending with the failing one,
\* and finalState is the state the k-th step was invoked with: the copied
\* initial state when k = 1, else what the (k-1)-th step returned or, when
\* that node paused, what the breakpoint handler returned for it
C5_FinalStateIsStepInput ==
    StepThrewMessage
    => /\ C5_ErrorResult
       /\ Res.finalState = IF stepCalls = 1 THEN CopyState(initialState)
                           ELSE IF bpRet # <<>> THEN bpRet[1]
                           ELSE stepRet[1]

C5_Witness ==
    /\ StepThrewMessage
    /\ stepCalls = 2
    /\ bpRet # <<>> /\ bpRet[1] # stepRet[1] /\ bpRet[1] # initialState
    /\ Res.finalState = bpRet[1]
    /\ Res.nodesVisited = <<"A", "B">>

\* resolveNextNode(currentNodeId, state') returned currentNodeId' in this step
Resolved == iterations' = iterations + 1

Min(S) == CHOOSE x \in S : \A y \in S : x <= y

\* the conditioned edges leaving id whose condition is true on st, and the
\* unconditioned edges leaving id, by position in graph.edges
TrueEdges(id, st) ==
    {i \in OutEdges(id) : /\ graph.edges[i].condition # Undefined
                          /\ ~CondThrows(graph.edges[i].condition, st)
                          /\ EvalCondition(graph.edges[i].condition, st)}
DefaultEdges(id) == {i \in OutEdges(id) : graph.edges[i].condition = Undefined}
Target(i) == graph.edges[i].to

\* C6: when several conditioned edges leaving the current node are true on
\* the current state, the next node is the target of the first declared
\* one, and only that node is run next
C6_FirstTrueConditionWins ==
    [][(Resolved /\ Cardinality(TrueEdges(currentNodeId, state')) >= 2)
       => /\ currentNodeId' = Target(Min(TrueEdges(currentNodeId, state')))
          /\ stepCalls' <= stepCalls + 1
          /\ pc' = "inStep" => nodesVisited' = Append(nodesVisited, currentNodeId')]_vars

C6_Witness ==
    /\ pc = "inStep" /\ iterations >= 1
    /\ LET true == TrueEdges(nodesVisited[iterations], state)
       IN /\ Cardinality(true) >= 2
          /\ \E i \in true : Target(i) # Target(Min(true))
          /\ currentNodeId = Target(Min(true))

\* C7: when no conditioned edge leaving the current node is true and an
\* unconditioned edge leaves it, the next node is the target of the first
\* declared unconditioned edge
C7_DefaultEdgeTaken ==
    [][(/\ Resolved
        /\ TrueEdges(currentNodeId, state') = {}
        /\ DefaultEdges(currentNodeId) # {})
       => currentNodeId' = Target(Min(DefaultEdges(currentNodeId)))]_vars

C7_Witness ==
    /\ pc = "inStep" /\ iterations >= 1
    /\ LET from == nodesVisited[iterations]
       IN /\ TrueEdges(from, state) = {}
          /\ \E i \in OutEdges(from), j \in DefaultEdges(from) :
                /\ graph.edges[i].condition = "dataPositive"
                /\ i < j /\ Target(i) # Target(j)
                /\ currentNodeId = Target(j)

\* C8: a conditioned edge whose condition is true is preferred to an
\* unconditioned edge from the same node that is declared before it
C8_ConditionBeforeDefault ==
    [][(/\ Resolved
        /\ TrueEdges(currentNodeId, state') # {}
        /\ DefaultEdges(currentNodeId) # {}
        /\ Min(DefaultEdges(currentNodeId)) < Min(TrueEdges(currentNodeId, state')))
       => currentNodeId' = Target(Min(TrueEdges(currentNodeId, state')))]_vars

C8_Witness ==
    /\ pc = "inStep" /\ iterations >= 1
    /\ LET from == nodesVisited[iterations]
       IN /\ TrueEdges(from, state) # {} /\ DefaultEdges(from) # {}
          /\ Min(DefaultEdges(from)) < Min(TrueEdges(from, state))
          /\ Target(Min(DefaultEdges(from))) # Target(Min(TrueEdges(from, state)))
          /\ currentNodeId = Target(Min(TrueEdges(from, state)))

\* C10 as stated: without an onBreakpoint handler, a pause marker returned
\* by a step is cleared: the state used next (for edge resolution, for the
\* next step and as finalState) does not contain it
C10_MarkerClearedWithoutHandler ==
    (/\ ~context.onBreakpoint
     /\ stepRet # <<>> /\ stepRet[1].breakpoint
     /\ pc \in {"inStep", "returned"} /\ NothingThrown)
    => ~state.breakpoint /\ bpCalls = 0

\* C9: with deterministic steps, handler and conditions, a second run()
\* from the same initial state on the same graph, with the signal in the
\* same condition, returns the same status, nodesVisited and finalState as
\* the first
C9_Deterministic ==
    (/\ det /\ prev # <<>>
     /\ pc \in {"returned", "rejected"}
     /\ Last(prev).abortSeen = abortSeen)
    => /\ Last(prev).pc = pc
       /\ Last(prev).result = result

C9_Witness ==
    /\ det /\ prev # <<>> /\ Returned
    /\ abortSeen = "never" /\ Last(prev).abortSeen = "never"
    /\ Len(Res.nodesVisited) >= 2
    /\ bpRet # <<>>
    /\ Res.finalState # initialState
    /\ Last(prev).result = result

\* the signal was aborted before run() was called or while it was suspended
AbortedBeforeReturn == abortSeen \in {"before", "during"}

\* C11 as stated: a run during which the signal becomes aborted before
\* run() returns ends 'cancelled' with no error string, whether the step in
\* flight returns or rejects, and whichever node is in flight
C11_AbortNeverError ==
    (Returned /\ AbortedBeforeReturn)
    => Res.status = "cancelled" /\ Res.error = NoError

\* a node's step is invoked in this step (line 60 is reached)
StepInvoked == pc' = "inStep" /\ (pc # "inStep" \/ stepCalls' = stepCalls + 1)

\* the run is suspended in an await and the signal is aborted
AbortedInFlight == aborted /\ pc \in {"inStep", "inBreakpoint"}

C12_NoInvocationWhenAborted == StepInvoked => ~aborted'

C12_OnlyInFlightFinishes ==
    (AbortedInFlight /\ pc' # pc)
    => /\ stepCalls' = stepCalls
       /\ pc = "inStep" => pc' \in {"inBreakpoint", "returned", "rejected"}
       /\ pc = "inBreakpoint" => pc' \in {"returned", "rejected"}

HandlerReturnedAborted ==
    pc = "inBreakpoint" /\ aborted /\ pc' # pc /\ thrown' = <<>>

\* C13: when the signal is aborted while the breakpoint handler is awaited,
\* on the handler's return run() returns 'cancelled' with the state the
\* handler returned as finalState and nodesVisited ending with the paused
\* node, no edge condition is evaluated and no other node is run
C13_CancelledAfterPause ==
    [][HandlerReturnedAborted
       => /\ pc' = "returned"
          /\ result'[1].status = "cancelled"
          /\ result'[1].error = NoError
          /\ result'[1].finalState = bpRet'[1]
          /\ result'[1].nodesVisited = nodesVisited
          /\ Last(nodesVisited) = bpCall[1].node
          /\ currentNodeId' = currentNodeId /\ iterations' = iterations
          /\ stepCalls' = stepCalls]_vars

\* the handler changed the state, and an edge with a throwing condition
\* and an existing target leaves the paused node
C13_Witness ==
    /\ Returned /\ Res.status = "cancelled" /\ bpRet # <<>>
    /\ bpRet[1] # bpCall[1].arg /\ bpRet[1] # CopyState(initialState)
    /\ Res.finalState = bpRet[1]
    /\ \E i \in OutEdges(currentNodeId) : graph.edges[i].condition = "throws"
    /\ iterations = 0

Terminal == {"completed", "error", "cancelled"}

\* the arrows of the lifecycle; a later run() leaves the terminal status of
\* the previous one for 'running'
LifecycleArrow(a, b) ==
    \/ a = "idle" /\ b = "running"
    \/ a = "running" /\ b \in {"paused"} \cup Terminal
    \/ a = "paused" /\ b = "running"
    \/ a \in Terminal /\ b = "running"

\* a step of the executor (not the caller aborting the signal)
ExecutorStep == ~(~aborted /\ aborted')

\* the status before this step followed by the assignments of this step
StatusPath == <<status>> \o statusWrites'

\* C14 as stated: status is 'idle' before any run(), 'paused' exactly while
\* onBreakpoint is awaited, and every assignment to it follows an arrow of
\* idle -> running -> (paused <-> running) -> {completed, error, cancelled}:
\* a terminal status is only entered from 'running', never from 'paused'
C14_StatusLifecycle ==
    /\ [](pc = "idle" => status = "idle")
    /\ [](status = "paused" <=> pc = "inBreakpoint")
    /\ [][ExecutorStep
          => \A i \in 1..(Len(StatusPath) - 1) :
                LifecycleArrow(StatusPath[i], StatusPath[i + 1])]_vars

\* lines 68-96 from the state st a step returned, as they run when
\* context.onProgress is omitted: the status with which the run suspends
\* or returns, the nodes visited and the local state
WithoutProgress(st) ==
    LET next == resolveNextNode(currentNodeId, st)
        vis == nodesVisited
        after(s, v, x) == [status |-> s, nodesVisited |-> v, state |-> x]
    IN IF BreakpointCheck(context, st) THEN after("paused", vis, DeleteMarker(st))
       ELSE IF next = Threw THEN after("error", vis, st)
       ELSE IF LoopCondition(next, iterations + 1)
       THEN IF CancelCheck(aborted) THEN after("cancelled", vis, st)
            ELSE IF findNode(next) = Undefined THEN after("error", vis, st)
            ELSE after("running", Append(vis, next), st)
       ELSE IF ExceededCheck(next, iterations + 1) THEN after("error", vis, st)
       ELSE after("completed", vis, st)

\* C15 as stated: whatever context.onProgress does, throwing included, the
\* run goes on after each step as it does with onProgress omitted: same
\* status, same nodesVisited, same state
C15_ProgressCannotAlterRun ==
    [][StepReturned
       => /\ status' = WithoutProgress(stepRet'[1]).status
          /\ nodesVisited' = WithoutProgress(stepRet'[1]).nodesVisited
          /\ state' = WithoutProgress(stepRet'[1]).state]_vars

\* an edge to the missing node is taken in this step, with the signal not
\* aborted and the iteration bound not reached
MissingEdgeTaken ==
    /\ Resolved /\ currentNodeId' = MissingId
    /\ ~aborted /\ iterations' < maxIter

\* C16 as stated: when an edge to a missing node is taken, run() returns
\* 'error' with a message naming the missing id, nodesVisited without that
\* id and the state returned by the last executed step as finalState (the
\* pause marker, which line 70 deletes from that state, left aside)
C16_FinalStateIsLastStepResult ==
    [][MissingEdgeTaken
       => /\ pc' = "returned"
          /\ result'[1].status = "error"
          /\ MissingId \in Range(result'[1].error)
          /\ MissingId \notin Range(result'[1].nodesVisited)
          /\ result'[1].finalState.data = stepRet'[1].data]_vars

\* the lookup of a node fails only for the current node, when it is missing
C16_FailsOnlyWhenTaken ==
    (thrown # <<>> /\ thrown[1].by = "findNode")
    => /\ currentNodeId = MissingId
       /\ currentNodeId = graph.entryNode
          \/ \E i \in 1..Len(graph.edges) : graph.edges[i].to = currentNodeId

\* C16: an edge to a missing node fails the run only when it is taken;
\* then, unless the signal is aborted or the iteration bound is reached,
\* run() returns 'error' with a message naming the missing id, nodesVisited
\* without that id and, as finalState, the state returned by the last
\* executed step, or by the breakpoint handler when that step paused
C16_LazyEdgeValidation ==
    /\ [](C16_FailsOnlyWhenTaken)
    /\ [][MissingEdgeTaken
          => /\ pc' = "returned"
             /\ result'[1].status = "error"
             /\ result'[1].error = ErrorText(NodeNotFoundError(MissingId))
             /\ MissingId \in Range(result'[1].error)
             /\ MissingId \notin Range(result'[1].nodesVisited)
             /\ result'[1].nodesVisited = nodesVisited
             /\ result'[1].finalState =
                   IF pc = "inBreakpoint" THEN bpRet'[1] ELSE stepRet'[1]
             /\ stepCalls' = stepCalls]_vars

\* the edge to the missing node is taken after a pause in which the handler
\* changed the state
C16_Witness ==
    /\ Returned /\ thrown # <<>> /\ thrown[1].by = "findNode"
    /\ iterations = 1 /\ currentNodeId = MissingId /\ ~aborted
    /\ Res.status = "error" /\ Res.nodesVisited = <<"A">>
    /\ bpRet # <<>> /\ bpRet[1].data # stepRet[1].data
    /\ Res.finalState = bpRet[1]

\* C17: when graph.entryNode names no node and the signal is not aborted,
\* run() fails at the first lookup: it returns 'error' with nodesVisited
\* empty and the copied initial state as finalState, and no step, progress
\* callback or handler is invoked
C17_MissingEntryNode ==
    (graph.entryNode \notin NodeIds /\ pc # "idle" /\ abortSeen = "never")
    => /\ Returned
       /\ thrown = <<[by |-> "findNode", value |-> NodeNotFoundError(graph.entryNode)]>>
       /\ Res.status = "error"
       /\ graph.entryNode \in Range(Res.error)
       /\ Res.nodesVisited = <<>>
       /\ Res.finalState = CopyState(initialState)
       /\ stepCalls = 0 /\ progressCalls = 0 /\ bpCalls = 0
       /\ iterations = 0

C17_Witness ==
    /\ Returned /\ graph.entryNode = MissingId /\ abortSeen = "never"
    /\ Res.status = "error" /\ Res.nodesVisited = <<>>
    /\ Res.finalState = [data |-> 0, breakpoint |-> TRUE]
    /\ graph.edges # <<>>

\* the result is the error of lines 85-93
ExceededReturned ==
    Res.status = "error" /\ Res.error = MaxIterationsError(maxIter)

\* C18 as stated: in a run that ends after the loop, the 'max iterations'
\* error is returned exactly when iterations has reached maxIterations with
\* a next node pending; when the last resolution gave no successor the run
\* is 'completed', also on the maxIterations-th executed node
C18_ExceededOnlyWhenPending ==
    (Returned /\ NothingThrown /\ Res.status # "cancelled")
    => /\ ExceededReturned <=> (iterations = maxIter /\ currentNodeId # Null)
       /\ currentNodeId = Null => Res.status = "completed"

\* C19 as stated: run() never rejects; whatever value the node lookup, a
\* step, the progress callback, the breakpoint handler or an edge condition
\* throws, run() returns 'error' with an error string, the nodes visited so
\* far and the last computed state
C19_NeverRejects ==
    (thrown # <<>>)
    => /\ Returned
       /\ Res.status = "error"
       /\ Res.error # NoError
       /\ Res.nodesVisited = nodesVisited
       /\ Res.finalState = state

\* the steps invoked and not yet settled
StepsInFlight == stepCalls - stepsSettled

\* a breakpoint handler is due for the step that settled last
HandlerDue == context.onBreakpoint /\ stepRet'[1].breakpoint

\* C20: within one run() at most one node step is in flight at any time; a
\* step is only invoked when every earlier step of the run has settled and
\* the breakpoint handler due for the previous one, if any, has returned
C20_OneStepInFlight ==
    /\ [](/\ StepsInFlight \in {0, 1}
          /\ StepsInFlight = 1 <=> pc = "inStep"
          /\ pc = "inBreakpoint" => stepsSettled = stepCalls /\ bpCalls = 1)
    /\ [][StepInvoked
          => /\ stepCalls' = stepsSettled' + 1
             /\ pc = "inStep" => stepsSettled' = stepsSettled + 1 /\ ~HandlerDue
             /\ pc = "inBreakpoint" => bpRet' # <<>> /\ stepsSettled' = stepsSettled
             /\ pc \notin {"inStep", "inBreakpoint"} => stepCalls' = 1]_vars

\* a third step is invoked on a self-loop, the handler having returned
\* for the second
C20_Witness ==
    /\ pc = "inStep" /\ stepCalls = 3 /\ stepsSettled = 2
    /\ bpRet # <<>> /\ context.onBreakpoint
    /\ nodesVisited = <<"A", "A", "A">>

\* the run() call has ended
RunEnded == pc \in {"returned", "rejected"}

\* C21 as stated: a run() call whose callbacks all return or throw in
\* finite time invokes at most maxIterations steps and ends by returning a
\* result with a terminal status
C21_EndsWithTerminalResult ==
    /\ stepCalls <= maxIter
    /\ RunEnded => Returned /\ Res.status \in Terminal

\* every awaited step and every awaited handler settles in finite time
SpecLive ==
    /\ Spec
    /\ WF_vars(StepReturns \/ StepThrows)
    /\ WF_vars(BreakpointReturns \/ BreakpointThrows)

\* under SpecLive every run() call ends, by a result or by rejecting
RunTerminates == (pc \in {"inStep", "inBreakpoint"}) ~> RunEnded

\* C22: once run() has resolved, getStatus() is the status of the returned
\* result, a terminal one, in every state until run() is invoked again
C22_StatusIsResultStatus ==
    Returned => status = Res.status /\ status \in Terminal

\* run() has resolved 'cancelled' after a pause in which the signal was
\* aborted
C22_Witness ==
    /\ Returned /\ status = "cancelled" /\ Res.status = "cancelled"
    /\ abortSeen = "during" /\ bpRet # <<>>

\* C23: on a graph that omits maxIterations and whose nodes always resolve
\* to a next node, when nothing throws and the signal is not aborted, run()
\* invokes exactly 50 steps and returns 'error' with a message mentioning 50
C23_DefaultBound ==
    (/\ Returned /\ NothingThrown /\ NeverAborted /\ AlwaysResolves
     /\ graph.maxIterations = <<>>)
    => /\ Res.status = "error"
       /\ stepCalls = 50 /\ stepsSettled = 50
       /\ Len(Res.nodesVisited) = 50
       /\ "50" \in Range(Res.error)

C23_Witness ==
    /\ Returned /\ NothingThrown /\ NeverAborted /\ AlwaysResolves
    /\ graph.maxIterations = <<>>
    /\ Res.status = "error" /\ Len(Res.nodesVisited) = 50
    /\ Res.nodesVisited[49] = "A" /\ Res.nodesVisited[50] = "B"

\* the two executors exchange roles in this step, both as they were
ExecutorsKept == other' = ExecutorState /\ ExecutorState' = other

RunsInFlight == {i \in 1..Len(mh.runs) : ~mh.runs[i].settled}

\* C26 as stated: through MessageHandler at most one workflow run is in
\* flight at any time, under any interleaving of runWorkflow and
\* cancelWorkflow messages with the completions of the runs
C26_SingleActiveRun == Cardinality(RunsInFlight) <= 1

\* nodesVisited at the start of this step of the run: a new run() call
\* starts from an empty list
VisitedBefore == IF pc \in {"idle", "returned", "rejected"} THEN <<>> ELSE nodesVisited

\* C30: at every point of a run nodesVisited is the sequence of the node ids
\* whose step has been invoked so far, one entry per invocation in
\* invocation order, and it is never longer than maxIterations
C30_VisitedIsInvocationSequence ==
    /\ [](/\ Len(nodesVisited) = stepCalls
          /\ Len(nodesVisited) <= maxIter
          /\ pc = "inStep" => Last(nodesVisited) = currentNodeId)
    /\ [][nodesVisited' = IF StepInvoked THEN Append(VisitedBefore, currentNodeId')
                          ELSE VisitedBefore]_vars

C30_Witness ==
    /\ pc = "inStep" /\ stepCalls = 3 /\ maxIter = 3
    /\ nodesVisited = <<"A", "B", "A">>

\* node id has outgoing edges, all of them conditioned, and every condition
\* evaluates false on st
AllConditionedFalse(id, st) ==
    LET edges == SelectSeq(graph.edges, LAMBDA e : e.from = id)
    IN /\ Len(edges) > 0
       /\ \A i \in 1..Len(edges) :
            /\ edges[i].condition = "dataPositive"
            /\ ~EvalCondition(edges[i].condition, st)

\* C29 as stated: when all the outgoing edges of the node executed last are
\* conditioned and evaluate false on the current state, edge resolution
\* returns null and the run ends with status 'completed' and no error
C29_ConditionedSinkCompletes ==
    (/\ Returned /\ NothingThrown /\ NeverAborted
     /\ nodesVisited # <<>>
     /\ AllConditionedFalse(Last(nodesVisited), Res.finalState))
    => /\ resolveNextNode(Last(nodesVisited), Res.finalState) = Null
       /\ currentNodeId = Null
       /\ Res.status = "completed"
       /\ Res.error = NoError

\* the executor runs the pipeline graph of this id
IsPipeline(name) == "id" \in DOMAIN graph /\ graph.id = name

\* C25 as stated: with ctx.kg and ctx.rag both absent and an LLM client
\* that always returns successfully, each of the four pipeline graphs ends
\* with status 'completed', no node having thrown
C25_CompletesWithoutCollaborators ==
    (/\ "id" \in DOMAIN graph
     /\ Returned /\ NeverAborted
     /\ ~context.kg /\ ~context.rag /\ context.llm = "succeeds")
    => /\ Res.status = "completed"
       /\ NothingThrown

\* README: identify context -> gather KG constraints -> RAG retrieval ->
\* generate draft -> continuity check -> propose canon deltas -> revise ->
\* evaluate -> finalise
DocumentedOrder ==
    <<"identify", "constraints", "rag", "generate", "continuity", "deltas", "revise",
      "evaluate", "finalize">>

Position(id) == CHOOSE i \in 1..Len(DocumentedOrder) : DocumentedOrder[i] = id

\* C27 as stated: in every completed run of the scene-draft graph the nodes
\* are visited in the documented order (so 'revise' comes after 'deltas' and
\* before 'evaluate'), and 'finalize' is the last node visited
C27_DocumentedOrder ==
    (IsPipeline("outline-to-scene-draft") /\ Returned /\ Res.status = "completed")
    => /\ \A i, j \in 1..Len(nodesVisited) :
            i < j => Position(nodesVisited[i]) < Position(nodesVisited[j])
       /\ Last(nodesVisited) = "finalize"

\* gatherCanon, audit, [repair], report
RepairOrder(withRepair) ==
    IF withRepair THEN <<"gatherCanon", "audit", "repair", "report">>
    ELSE <<"gatherCanon", "audit", "report">>

PrefixOf(s, t) == Len(s) <= Len(t) /\ \A i \in 1..Len(s) : s[i] = t[i]

\* the edge condition of audit -> repair
ShouldRepair(st) == st.autoRepair /\ st.issues # "none"

\* the step of 'audit' resolves in this step of the run
AuditReturned ==
    /\ IsPipeline("continuity-repair")
    /\ pc = "inStep" /\ currentNodeId = "audit"
    /\ stepsSettled' = stepsSettled + 1 /\ thrown' = <<>>

\* C28: in the continuity-repair graph 'repair' is executed if and only if
\* autoRepair is true and issues is non-empty in the state 'audit' returned;
\* the nodes are visited in the order gatherCanon, audit, [repair], report,
\* and every completed run ends with the one execution of 'report'
C28_RepairIffIssues ==
    /\ [](IsPipeline("continuity-repair")
          => /\ \E b \in BOOLEAN : PrefixOf(nodesVisited, RepairOrder(b))
             /\ (Returned /\ Res.status = "completed")
                => nodesVisited = RepairOrder(ShouldRepair(Res.finalState)))
    /\ [][AuditReturned
          => IF aborted THEN pc' = "returned" /\ result'[1].status = "cancelled"
             ELSE /\ pc' = "inStep"
                  /\ currentNodeId' = IF ShouldRepair(stepRet'[1]) THEN "repair"
                                      ELSE "report"]_vars

C28_Witness ==
    /\ IsPipeline("continuity-repair")
    /\ Returned /\ Res.status = "completed"
    /\ nodesVisited = <<"gatherCanon", "audit", "repair", "report">>
    /\ Res.finalState.repairedText = "modified"
    /\ Res.finalState.report = "parsed"

\* the steps of this run that returned successfully
StepsReturned ==
    stepsSettled - (IF thrown # <<>> /\ thrown[1].by = "step" THEN 1 ELSE 0)

\* onProgress is invoked in this step of the run
ProgressInvoked == pc = "inStep" /\ progressCalls' = progressCalls + 1

MarkerDeleted == pc = "inStep" /\ pc' = "inBreakpoint"

\* C32: run() leaves its inputs unchanged: the graph, the context and the
\* caller's initialState object are never modified; the run works on a copy
\* of initialState, and the delete of the pause marker acts on that copy
\* or on a state a step or a handler returned
C32_InputsUnchanged ==
    /\ [](stateRef = "own")
    /\ [][/\ graph' = graph
          /\ context' = context
          /\ initialState' = initialState
          /\ MarkerDeleted
             => /\ stateRef' = "own"
                /\ stepRet'[1].breakpoint /\ ~state'.breakpoint]_vars

C32_Witness ==
    /\ pc = "inBreakpoint" /\ stepCalls = 1
    /\ initialState = [data |-> 0, breakpoint |-> TRUE]
    /\ stepRet = <<initialState>>
    /\ state = [data |-> 0, breakpoint |-> FALSE]

\* how often id occurs in the sequence s
Occurrences(s, id) == Cardinality({i \in 1..Len(s) : s[i] = id})

\* C33: in every run of the scene-draft graph 'revise' is executed at most
\* twice, and a run in which no step fails and the signal is not aborted
\* executes at most 12 nodes, stays below maxIterations = 20 and ends
\* 'completed'
C33_RevisionLoopBounded ==
    IsPipeline("outline-to-scene-draft")
    => /\ Occurrences(nodesVisited, "revise") <= 2
       /\ state.revisionCount = Occurrences(nodesVisited, "revise")
                                - (IF pc = "inStep" /\ currentNodeId = "revise" THEN 1 ELSE 0)
          \/ pc \in {"idle", "returned", "rejected"}
       /\ (Returned /\ NothingThrown /\ NeverAborted)
          => /\ Res.status = "completed"
             /\ Len(nodesVisited) <= 12
             /\ stepCalls < maxIter
             /\ maxIter = 20

C33_Witness ==
    /\ IsPipeline("outline-to-scene-draft")
    /\ Returned /\ Res.status = "completed"
    /\ Occurrences(nodesVisited, "revise") = 2
    /\ Len(nodesVisited) = 12
    /\ Res.finalState.revisionCount = 2

\* the step of 'generateBeats' resolves in this step of the run
GenerateBeatsReturned ==
    /\ IsPipeline("brainstorm-beats")
    /\ pc = "inStep" /\ currentNodeId = "generateBeats"
    /\ stepsSettled' = stepsSettled + 1 /\ thrown' = <<>>

\* C34: in the brainstorm-beats graph 'expandBeat' is executed only if
\* selectedBeatIndex is non-null in the state 'generateBeats' returned;
\* otherwise the run ends 'completed' right after 'generateBeats', with
\* nodesVisited = [gatherContext, ragContext, analyzeState, generateBeats]
C34_ExpandOnlyWhenSelected ==
    /\ [](IsPipeline("brainstorm-beats")
          => /\ "expandBeat" \in Range(nodesVisited) => state.selectedBeatIndex # Null
             /\ PrefixOf(nodesVisited, <<"gatherContext", "ragContext", "analyzeState",
                                        "generateBeats", "expandBeat">>))
    /\ [][GenerateBeatsReturned
          => IF stepRet'[1].selectedBeatIndex = Null
             THEN /\ pc' = "returned"
                  /\ result'[1].status = "completed"
                  /\ result'[1].error = NoError
                  /\ result'[1].nodesVisited = <<"gatherContext", "ragContext",
                                                 "analyzeState", "generateBeats">>
             ELSE aborted \/ (pc' = "inStep" /\ currentNodeId' = "expandBeat")]_vars

C34_Witness ==
    /\ IsPipeline("brainstorm-beats")
    /\ Returned /\ Res.status = "completed"
    /\ Res.finalState.selectedBeatIndex = Null /\ Res.finalState.beats = "some"
    /\ nodesVisited = <<"gatherContext", "ragContext", "analyzeState", "generateBeats">>

\* the registered runner's status is 'running' or 'paused'
RunnerBusy ==
    /\ mh.activeRunner # 0
    /\ mh.runs[mh.activeRunner].status \in {"running", "paused"}

\* a message handler returns the 'already running' error in this step
Refused == mh'.response = "already running" /\ mh'.response # mh.response

\* C35: a runWorkflow message received while the registered runner's status
\* is 'running' or 'paused' is refused with 'A workflow is already running':
\* no runner or controller is created, no run() is started, and
\* activeRunner, activeWorkflowAbort and lastWorkflowResult stay as they are
C35_RefusedWhileRunning ==
    [][/\ RunnerBusy => Len(mh'.runs) = Len(mh.runs)
       /\ Refused
          => /\ RunnerBusy
             /\ mh'.runs = mh.runs
             /\ mh'.activeRunner = mh.activeRunner
             /\ mh'.activeWorkflowAbort = mh.activeWorkflowAbort
             /\ mh'.lastWorkflowResult = mh.lastWorkflowResult]_allVars

C35_Witness ==
    /\ RunnerBusy
    /\ mh.response = "already running"
    /\ mh.activeRunner = 2 /\ mh.activeWorkflowAbort = 2
    /\ mh.lastWorkflowResult = <<[run |-> 1, status |-> "completed"]>>

\* C36 as stated: a run started through runWorkflow that has not returned
\* and has not been cancelled is the one whose runner and abort controller
\* the handler holds, so that cancelWorkflow aborts its signal; the
\* completion of an earlier run never clears the handles of a later one
C36_CancelReachesRunInFlight ==
    \A i \in 1..Len(mh.runs) :
        (~mh.runs[i].settled /\ ~mh.runs[i].aborted)
        => mh.activeWorkflowAbort = i /\ mh.activeRunner = i

\* ------------------------------------------------------ the RAGBuilder
\* calls of fullBuild / incrementalUpdate made on one builder
MaxBuilds == 3

\* the notes joplin.data can report for the project's notebooks and tags
Notes == {"n1", "n2"}

\* new RAGBuilder(ragIndex): an empty index, lastBuildTime = 0,
\* indexedNoteIds = new Set(), building = false
NewRAGBuilder ==
    [building |-> FALSE, index |-> {}, indexedNoteIds |-> {},
     lastBuildTime |-> 0, calls |-> <<>>]

\* get isBuilding
isBuilding == ragBuilder.building

\* { indexed: 0, errors: 0 } and { added: 0, updated: 0, removed: 0 }
ZeroCounts(op) ==
    IF op = "fullBuild" THEN [indexed |-> 0, errors |-> 0]
    ELSE [added |-> 0, updated |-> 0, removed |-> 0]

BuildGuard_never(building) == FALSE

\* if (this.building) { ... return zero counts }
BuildGuard(building) == building

\* the calls that are between `this.building = true` and the finally block
InBody == {i \in 1..Len(ragBuilder.calls) :
             ragBuilder.calls[i].pc \in {"collectNoteIds", "notes"}}

\* the end of the try block and the finally block: lastBuildTime = Date.now(),
\* return the counts, building = false
BuildReturns(rb, i) ==
    [rb EXCEPT !.lastBuildTime = rb.lastBuildTime + 1,
               !.building = FALSE,
               !.calls[i].pc = "returned"]

\* the body goes on to its next await, or returns when no note is left
NextAwait(rb, i) ==
    IF rb.calls[i].noteIds = {} THEN BuildReturns(rb, i)
    ELSE [rb EXCEPT !.calls[i].pc = "notes"]

\* a call of fullBuild or incrementalUpdate, up to its first await or its
\* early return
BeginBuild(op) ==
    /\ Len(ragBuilder.calls) < MaxBuilds
    /\ ragBuilder' =
         IF BuildGuard(ragBuilder.building)
         THEN [ragBuilder EXCEPT !.calls = Append(@,
                  [op |-> op, entered |-> FALSE, pc |-> "returned",
                   noteIds |-> {}, counts |-> ZeroCounts(op)])]
         ELSE [ragBuilder EXCEPT
                  !.building = TRUE,
                  !.index = IF op = "fullBuild" THEN {} ELSE @,
                  !.indexedNoteIds = IF op = "fullBuild" THEN {} ELSE @,
                  !.calls = Append(@,
                  [op |-> op, entered |-> TRUE, pc |-> "collectNoteIds",
                   noteIds |-> {}, counts |-> ZeroCounts(op)])]
    /\ UNCHANGED <<vars, other, mh, kgManager, registry>>

fullBuild == BeginBuild("fullBuild")

incrementalUpdate == BeginBuild("incrementalUpdate")

\* the timer of index.ts: if (project && !ragBuilder.isBuilding)
\* await ragBuilder.incrementalUpdate(project)
UpdateTimer == ~isBuilding /\ incrementalUpdate

\* collectNoteIds resolves with the ids in scope; incrementalUpdate removes
\* the indexed notes that are no longer in scope before its first fetch
CollectResolves ==
    \E i \in 1..Len(ragBuilder.calls) : \E ids \in SUBSET Notes :
      /\ ragBuilder.calls[i].pc = "collectNoteIds"
      /\ LET c == ragBuilder.calls[i]
             gone == ragBuilder.indexedNoteIds \ ids
             rb == IF c.op = "fullBuild"
                   THEN [ragBuilder EXCEPT !.calls[i].noteIds = ids]
                   ELSE [ragBuilder EXCEPT
                           !.index = @ \ gone,
                           !.indexedNoteIds = @ \ gone,
                           !.calls[i].noteIds = ids,
                           !.calls[i].counts.removed = Cardinality(gone)]
         IN ragBuilder' = NextAwait(rb, i)
      /\ UNCHANGED <<vars, other, mh, kgManager, registry>>

\* collectNoteIds rejects: the finally block runs and the call throws
CollectRejects ==
    \E i \in 1..Len(ragBuilder.calls) :
      /\ ragBuilder.calls[i].pc = "collectNoteIds"
      /\ ragBuilder' = [ragBuilder EXCEPT !.building = FALSE,
                                          !.calls[i].pc = "threw"]
      /\ UNCHANGED <<vars, other, mh, kgManager, registry>>

\* one iteration of the loop over the notes in scope; fetched is what
\* joplin.data gave for the note: a "doc", "null" (no note or no body),
\* "unmodified" (updated_time not after lastBuildTime) or "throws"
NoteStep ==
    \E i \in 1..Len(ragBuilder.calls) :
    \E n \in ragBuilder.calls[i].noteIds :
    \E fetched \in {"doc", "null", "unmodified", "throws"} :
      /\ ragBuilder.calls[i].pc = "notes"
      /\ LET c == ragBuilder.calls[i]
             known == n \in ragBuilder.indexedNoteIds
             add == [ragBuilder EXCEPT !.index = @ \cup {n},
                                       !.indexedNoteIds = @ \cup {n}]
             rb ==
               IF c.op = "fullBuild"
               THEN (CASE fetched = "doc" ->
                            [add EXCEPT !.calls[i].counts.indexed = @ + 1]
                       [] fetched = "throws" ->
                            [ragBuilder EXCEPT !.calls[i].counts.errors = @ + 1]
                       [] OTHER -> ragBuilder)
               ELSE (CASE ~known /\ fetched = "doc" ->
                            [add EXCEPT !.calls[i].counts.added = @ + 1]
                       [] known /\ ragBuilder.lastBuildTime > 0 /\ fetched = "doc" ->
                            [ragBuilder EXCEPT !.index = @ \cup {n},
                                               !.calls[i].counts.updated = @ + 1]
                       [] OTHER -> ragBuilder)
         IN ragBuilder' = NextAwait([rb EXCEPT !.calls[i].noteIds = @ \ {n}], i)
      /\ UNCHANGED <<vars, other, mh, kgManager, registry>>

InitRag ==
    /\ InitWith({[entryNode |-> "A", edges |-> <<>>, maxIterations |-> <<>>]},
                {[data |-> 0, breakpoint |-> FALSE]},
                {[onBreakpoint |-> FALSE, onProgress |-> "returns"]}, FALSE)
    /\ other = <<>>
    /\ mh = <<>>
    /\ ragBuilder = NewRAGBuilder
    /\ kgManager = <<>>
    /\ registry = <<>>

NextRag ==
    \/ fullBuild
    \/ incrementalUpdate
    \/ UpdateTimer
    \/ CollectResolves
    \/ CollectRejects
    \/ NoteStep

SpecRag == InitRag /\ [][NextRag]_allVars

\* C37: on one RAGBuilder at most one call of fullBuild / incrementalUpdate
\* is in its body at any time and building is true exactly then, so it is
\* false again after every build that returned or threw; and a call made
\* while a build is in progress returns zero counts and leaves the index
\* and indexedNoteIds as they were.
OneBuildInBody ==
    /\ Cardinality(InBody) <= 1
    /\ ragBuilder.building <=> InBody # {}

RefusedBuildIsNoOp ==
    (ragBuilder.building /\ Len(ragBuilder'.calls) > Len(ragBuilder.calls)) =>
       LET c == ragBuilder'.calls[Len(ragBuilder'.calls)]
       IN /\ c.pc = "returned"
          /\ c.counts = ZeroCounts(c.op)
          /\ ragBuilder'.index = ragBuilder.index
          /\ ragBuilder'.indexedNoteIds = ragBuilder.indexedNoteIds
          /\ ragBuilder'.building

C37_BuildsMutuallyExclusive ==
    []OneBuildInBody /\ [][RefusedBuildIsNoOp]_allVars

\* a call was refused, an earlier build threw, a later one returned with a
\* note indexed, and the flag is false again
C37_Witness ==
    /\ ~ragBuilder.building
    /\ \E i, j, k \in 1..Len(ragBuilder.calls) :
         /\ ~ragBuilder.calls[i].entered
         /\ ragBuilder.calls[j].pc = "threw"
         /\ ragBuilder.calls[k].pc = "returned"
         /\ ragBuilder.calls[k].entered
         /\ ragBuilder.index # {}

\* ------------------------------------------------------ the KGManager
\* mutations applied to the loaded database
MaxMutations == 2

\* calls of save() made on one manager
MaxSaves == 3

\* a manager with a project loaded whose graph was never saved: the database
\* is as loaded (0 mutations), no resource exists, dirty = false
LoadedKGManager ==
    [dirty |-> FALSE, db |-> 0, kgResourceId |-> 0, resources |-> <<>>,
     saves |-> <<>>]

\* this.db.serialize(): the database with the mutations applied so far
serialize(km) == km.db

\* what the resource named by project.kgResourceId holds; without a resource
\* nothing but the database as loaded is persisted
Persisted(km) ==
    IF km.kgResourceId = 0 THEN 0 ELSE km.resources[km.kgResourceId]

\* handleKGMutate: the mutation of the database, then markDirty(), with no
\* await between them
handleKGMutate ==
    /\ kgManager.db < MaxMutations
    /\ kgManager' = [kgManager EXCEPT !.db = @ + 1, !.dirty = TRUE]
    /\ UNCHANGED <<vars, other, mh, ragBuilder, registry>>

\* save() up to its first await: returns at once unless dirty, else
\* serializes the database and starts the write of the resource
save ==
    /\ Len(kgManager.saves) < MaxSaves
    /\ kgManager' =
         IF ~kgManager.dirty
         THEN [kgManager EXCEPT !.saves = Append(@,
                  [pc |-> "returned", data |-> serialize(kgManager), to |-> 0])]
         ELSE [kgManager EXCEPT !.saves = Append(@,
                  [pc |-> "write", data |-> serialize(kgManager),
                   to |-> kgManager.kgResourceId])]
    /\ UNCHANGED <<vars, other, mh, ragBuilder, registry>>

\* updateResourceData resolves: the resource holds the serialized data,
\* dirty = false and save() returns
UpdateResolves ==
    \E i \in 1..Len(kgManager.saves) :
      /\ kgManager.saves[i].pc = "write"
      /\ kgManager.saves[i].to # 0
      /\ kgManager' = [kgManager EXCEPT
                         !.resources[kgManager.saves[i].to] = kgManager.saves[i].data,
                         !.dirty = FALSE,
                         !.saves[i].pc = "returned"]
      /\ UNCHANGED <<vars, other, mh, ragBuilder, registry>>

\* createKGResource resolves: a new resource holds the serialized data, and
\* save() awaits updateProject
CreateResolves ==
    \E i \in 1..Len(kgManager.saves) :
      /\ kgManager.saves[i].pc = "write"
      /\ kgManager.saves[i].to = 0
      /\ kgManager' = [kgManager EXCEPT
                         !.resources = Append(@, kgManager.saves[i].data),
                         !.saves[i].pc = "updateProject",
                         !.saves[i].to = Len(kgManager.resources) + 1]
      /\ UNCHANGED <<vars, other, mh, ragBuilder, registry>>

\* updateProject resolves: project.kgResourceId names the new resource,
\* dirty = false and save() returns
UpdateProjectResolves ==
    \E i \in 1..Len(kgManager.saves) :
      /\ kgManager.saves[i].pc = "updateProject"
      /\ kgManager' = [kgManager EXCEPT
                         !.kgResourceId = kgManager.saves[i].to,
                         !.dirty = FALSE,
                         !.saves[i].pc = "returned"]
      /\ UNCHANGED <<vars, other, mh, ragBuilder, registry>>

\* an awaited call of save() rejects: save() throws with dirty untouched
SaveRejects ==
    \E i \in 1..Len(kgManager.saves) :
      /\ kgManager.saves[i].pc \in {"write", "updateProject"}
      /\ kgManager' = [kgManager EXCEPT !.saves[i].pc = "threw"]
      /\ UNCHANGED <<vars, other, mh, ragBuilder, registry>>

InitKG ==
    /\ InitWith({[entryNode |-> "A", edges |-> <<>>, maxIterations |-> <<>>]},
                {[data |-> 0, breakpoint |-> FALSE]},
                {[onBreakpoint |-> FALSE, onProgress |-> "returns"]}, FALSE)
    /\ other = <<>>
    /\ mh = <<>>
    /\ ragBuilder = <<>>
    /\ kgManager = LoadedKGManager
    /\ registry = <<>>

NextKG ==
    \/ handleKGMutate
    \/ save
    \/ UpdateResolves
    \/ CreateResolves
    \/ UpdateProjectResolves
    \/ SaveRejects

SpecKG == InitKG /\ [][NextKG]_allVars

\* C38: dirty is false only when the persisted resource reflects every
\* mutation made so far; in particular a markDirty() made while a save()
\* awaits its resource write leaves dirty true once that save() finishes.
C38_DirtyFalseOnlyWhenPersisted ==
    ~kgManager.dirty => Persisted(kgManager) = kgManager.db

\* ------------------------------------------------------ the project registry
\* calls of the registry's operations
MaxRegistryCalls == 3

\* '{"activeProjectId":null,"projects":[]}': the registry read when the
\* setting was never written (0 stands for null)
EmptyRegistry == [activeProjectId |-> 0, projects |-> <<>>]

\* registry.projects.find((p) => p.id === projectId) is defined
HasProject(reg, projectId) ==
    \E k \in 1..Len(reg.projects) : reg.projects[k].id = projectId

\* registry.projects.filter((p) => p.id !== projectId)
RECURSIVE WithoutProject(_, _)
WithoutProject(projects, projectId) ==
    IF projects = <<>> THEN <<>>
    ELSE IF Head(projects).id = projectId
         THEN WithoutProject(Tail(projects), projectId)
         ELSE <<Head(projects)>> \o WithoutProject(Tail(projects), projectId)

\* setActiveProject between its two awaits: <<>> when it throws
setActiveProject(reg, projectId) ==
    IF projectId # 0 /\ ~HasProject(reg, projectId) THEN <<>>
    ELSE <<[reg EXCEPT !.activeProjectId = projectId]>>

\* createProject between its two awaits; id is what generateId() returned
createProject(reg, id) ==
    LET pushed == Append(reg.projects, [id |-> id, kgResourceId |-> 0])
    IN <<[activeProjectId |-> IF Len(pushed) = 1 THEN id ELSE reg.activeProjectId,
          projects |-> pushed]>>

\* updateProject between its two awaits, with the updates of KGManager.save
\* (kgNoteId and kgResourceId set): <<>> when it throws
updateProject(reg, projectId) ==
    IF ~HasProject(reg, projectId) THEN <<>>
    ELSE <<[reg EXCEPT !.projects =
              [k \in 1..Len(reg.projects) |->
                 IF reg.projects[k].id = projectId
                 THEN [reg.projects[k] EXCEPT !.kgResourceId = 1]
                 ELSE reg.projects[k]]]>>

\* deleteProject between its two awaits
deleteProject(reg, projectId) ==
    LET kept == WithoutProject(reg.projects, projectId)
    IN <<[activeProjectId |->
             IF reg.activeProjectId = projectId
             THEN (IF Len(kept) > 0 THEN kept[1].id ELSE 0)
             ELSE reg.activeProjectId,
          projects |-> kept]>>

RegistryOps == {"setActiveProject", "createProject", "updateProject", "deleteProject"}

\* the ids generateId() has returned: a created project's id is the
\* number of the call that created it
CreatedIds ==
    {i \in 1..Len(registry.calls) : registry.calls[i].op = "createProject"}

\* a message calls one of the operations, which awaits loadRegistry()
CallRegistry ==
    \E op \in RegistryOps :
    \E projectId \in CreatedIds \cup {0} :
      /\ Len(registry.calls) < MaxRegistryCalls
      /\ (projectId = 0) <=> (op = "createProject")
      /\ registry' = [registry EXCEPT !.calls = Append(@,
                        [op |-> op, projectId |-> projectId, pc |-> "load",
                         registry |-> <<>>])]
      /\ UNCHANGED <<vars, other, mh, ragBuilder, kgManager>>

\* loadRegistry() resolves with a copy of the stored registry; the
\* operation modifies the copy and awaits saveRegistry(), or throws
LoadResolves ==
    \E i \in 1..Len(registry.calls) :
      /\ registry.calls[i].pc = "load"
      /\ LET c == registry.calls[i]
             reg == registry.stored
             modified ==
               CASE c.op = "setActiveProject" -> setActiveProject(reg, c.projectId)
                 [] c.op = "createProject" -> createProject(reg, i)
                 [] c.op = "updateProject" -> updateProject(reg, c.projectId)
                 [] c.op = "deleteProject" -> deleteProject(reg, c.projectId)
         IN registry' = [registry EXCEPT
                           !.calls[i].registry = modified,
                           !.calls[i].pc = IF modified = <<>> THEN "threw"
                                           ELSE "save"]
      /\ UNCHANGED <<vars, other, mh, ragBuilder, kgManager>>

\* settings.setValue resolves: the setting holds the call's registry, and
\* the operation returns
SaveResolves ==
    \E i \in 1..Len(registry.calls) :
      /\ registry.calls[i].pc = "save"
      /\ registry' = [registry EXCEPT !.stored = registry.calls[i].registry[1],
                                      !.calls[i].pc = "returned"]
      /\ UNCHANGED <<vars, other, mh, ragBuilder, kgManager>>

InitRegistry ==
    /\ InitWith({[entryNode |-> "A", edges |-> <<>>, maxIterations |-> <<>>]},
                {[data |-> 0, breakpoint |-> FALSE]},
                {[onBreakpoint |-> FALSE, onProgress |-> "returns"]}, FALSE)
    /\ other = <<>>
    /\ mh = <<>>
    /\ ragBuilder = <<>>
    /\ kgManager = <<>>
    /\ registry = [stored |-> EmptyRegistry, calls |-> <<>>]

NextRegistry == CallRegistry \/ LoadResolves \/ SaveResolves

SpecRegistry == InitRegistry /\ [][NextRegistry]_allVars

\* C39: once every call has settled, the stored registry reflects every
\* call that returned: a created project is there unless a deleteProject
\* for it returned, a deleted project is not, and an updated project that
\* is there has the update.
CallReturned(op, projectId) ==
    \E i \in 1..Len(registry.calls) :
      /\ registry.calls[i].op = op
      /\ registry.calls[i].pc = "returned"
      /\ IF op = "createProject" THEN i = projectId
         ELSE registry.calls[i].projectId = projectId

AllSettled ==
    \A i \in 1..Len(registry.calls) : registry.calls[i].pc \in {"returned", "threw"}

C39_NoLostUpdate ==
    AllSettled =>
      \A p \in CreatedIds :
        /\ (CallReturned("createProject", p) /\ ~CallReturned("deleteProject", p))
              => HasProject(registry.stored, p)
        /\ CallReturned("deleteProject", p) => ~HasProject(registry.stored, p)
        /\ CallReturned("updateProject", p) =>
              \A k \in 1..Len(registry.stored.projects) :
                 registry.stored.projects[k].id = p
                    => registry.stored.projects[k].kgResourceId = 1

====
